---- MODULE Spec2Model ----
(***************************************************************************)
(* Model of the etop-am-system: the normalized store and its models'       *)
(* upserts, the three score calculators, the sync routes, the narrative    *)
(* generator with its citation validation, and the QBR worker job.         *)
(*                                                                         *)
(* Numbers.  The calculators compute in IEEE-754 doubles.  The model       *)
(* computes the exact rational value (a pair <<n, d>>, d > 0, in lowest    *)
(* terms) and, at each place where a double is rounded or compared with a  *)
(* threshold, takes the sign of the double's error from a table of the     *)
(* inputs for which the double is not the exact value at a tie or on a     *)
(* threshold (DoubleErrorOfTotal, DoubleErrorOfEndpoint,                   *)
(* DoubleErrorOfTrend).                                                    *)
(***************************************************************************)
EXTENDS Integers, Sequences, FiniteSets, TLC

VARIABLES
    store,        \* the committed database: one set of rows per table
    nextId,       \* the tables' id sequences (never rolled back)
    clientOrder,  \* the order in which a scan of clients returns the rows
    scores,       \* the last response of GET /clients/:id/scores
    scorer,       \* a score calculation that reads query by query
    workers,      \* the sync requests in flight, one per worker
    hist,         \* the last sync runs that ended, newest last
    job,          \* the QBR worker job and its narrative generation
    cache,        \* the in-memory cache of the API process: key -> entry
    calls         \* the calls to an external API in flight, and their log

vars == <<store, nextId, clientOrder, scores, scorer, workers, hist, job,
          cache, calls>>

(***************************************************************************)
(* Bounds of the model.                                                    *)
(***************************************************************************)
MaxDev == 2       \* devices of the client under test in a drawn store
MaxCtl == 2       \* controls of the client under test
MaxUsr == 2       \* users of the client under test
MaxTkt == 2       \* tickets per quarter of the client under test
MaxRsk == 1       \* risks per type of the client under test

ClientIds == {1, 2}

(***************************************************************************)
(* Exact rationals.                                                        *)
(***************************************************************************)
Abs(x) == IF x < 0 THEN -x ELSE x

RECURSIVE GCD(_, _)
GCD(a, b) == IF b = 0 THEN a ELSE GCD(b, a % b)

Frac(n, d) ==
    LET g == GCD(Abs(n), d)
    IN  IF n = 0 THEN <<0, 1>> ELSE <<n \div g, d \div g>>

Int2R(i)   == <<i, 1>>
RAdd(a, b) == Frac(a[1] * b[2] + b[1] * a[2], a[2] * b[2])
RSub(a, b) == Frac(a[1] * b[2] - b[1] * a[2], a[2] * b[2])
RMul(a, b) == Frac(a[1] * b[1], a[2] * b[2])
RLt(a, b)  == a[1] * b[2] < b[1] * a[2]
RMin(a, b) == IF RLt(b, a) THEN b ELSE a
RMax(a, b) == IF RLt(a, b) THEN b ELSE a
Pct(a, b)  == Frac(100 * a, b)            \* (a / b) * 100, for b > 0

\* x < t for the double whose exact value is x and whose error has sign err.
DLt(x, err, t) == RLt(x, Int2R(t)) \/ (x = Int2R(t) /\ err < 0)

\* Math.round of the double whose exact value is x (x >= 0) and whose error
\* has sign err: the nearest integer, a tie going up unless the double fell
\* below it.
MathRoundD(x, err) ==
    LET fl == x[1] \div x[2]
        twice == 2 * (x[1] - fl * x[2])       \* 2 * frac(x) * d
    IN  IF twice > x[2] \/ (twice = x[2] /\ err >= 0) THEN fl + 1 ELSE fl

MathRound(x) == MathRoundD(x, 0)

RECURSIVE SumSeq(_)
SumSeq(s) == IF s = <<>> THEN <<0, 1>> ELSE RAdd(Head(s), SumSeq(Tail(s)))

\* score: null is <<>>, the number n is <<n>>.
NULL    == <<>>
Some(n) == <<n>>

(***************************************************************************)
(* The store.  A table is a set of rows, each with its own id.  A row      *)
(* keeps the columns the models' queries and the calculators read.         *)
(*   clients  [id, external_id, source]                                    *)
(*   devices  [id, client_id, external_id, managed, health_status]         *)
(*   tickets  [id, client_id, external_id, quarter, sla_met, reopen_count, *)
(*             category, after_hours]                                      *)
(*   controls [id, client_id, external_id, control_type, status]           *)
(*   users    [id, client_id, external_id, mfa_enabled, risk_level]        *)
(*   risks    [id, client_id, external_id, risk_type, status]              *)
(* A ticket's created_date is kept as the quarter it falls in ("cur",      *)
(* "prev", "old", or "none" for a null date) and whether its local time is *)
(* outside business hours.                                                 *)
(***************************************************************************)
Tables == {"clients", "devices", "tickets", "controls", "users", "risks"}

EmptyStore == [t \in Tables |-> {}]

\* ---- src/models/device.js
deviceFindByClientId(db, c) == {r \in db.devices : r.client_id = c}

deviceFindByHealthStatus(db, c, h) ==
    {r \in db.devices : r.client_id = c /\ r.health_status = h}

deviceCountByClientId(db, c) ==
    Cardinality({r \in db.devices : r.client_id = c})

deviceCountManagedByClientId(db, c) ==
    Cardinality({r \in db.devices : r.client_id = c /\ r.managed})

\* ---- src/models/control.js
controlCountByStatus(db, c, st) ==
    Cardinality({r \in db.controls : r.client_id = c /\ r.status = st})

\* getPassRate's two counts: of the client's controls of a type, and of the
\* passing ones among them.
controlCountOfType(db, c, ty) ==
    Cardinality({r \in db.controls : r.client_id = c /\ r.control_type = ty})

controlCountPassedOfType(db, c, ty) ==
    Cardinality({r \in db.controls :
                    r.client_id = c /\ r.control_type = ty /\ r.status = "pass"})

\* ---- src/models/ticket.js (tickets, then users)
ticketFindByClientId(db, c) == {r \in db.tickets : r.client_id = c}

ticketFindByDateRange(db, c, quarter) ==
    {r \in db.tickets : r.client_id = c /\ r.quarter = quarter}

\* countSLAMet without its client_id filter
ticketCountSLAMetOfAnyClient(db, c, quarter) ==
    Cardinality({r \in db.tickets : r.sla_met /\ r.quarter = quarter})

ticketCountSLAMet(db, c, quarter) ==
    Cardinality({r \in db.tickets :
                    r.client_id = c /\ r.sla_met /\ r.quarter = quarter})

ticketCountReopened(db, c, quarter) ==
    Cardinality({r \in db.tickets :
                    r.client_id = c /\ r.reopen_count > 0 /\ r.quarter = quarter})

userCountByClientId(db, c) ==
    Cardinality({r \in db.users : r.client_id = c})

userCountMFAEnabled(db, c) ==
    Cardinality({r \in db.users : r.client_id = c /\ r.mfa_enabled})

userCountByRiskLevel(db, c, lvl) ==
    Cardinality({r \in db.users : r.client_id = c /\ r.risk_level = lvl})

\* ---- src/models/risk.js
riskFindByType(db, c, ty) ==
    {r \in db.risks : r.client_id = c /\ r.risk_type = ty}

(***************************************************************************)
(* The calculators' queries.  Each calculator awaits its queries one by    *)
(* one, in the order of its plan; a query reads the store as it is         *)
(* committed when the query runs.  q holds the answers read so far.        *)
(***************************************************************************)
StandardsPlan ==
    << "s_total", "s_managed",                       \* calculateStandardsScore
       "i_pass", "i_fail", "i_unknown", "i_pass2",   \* calculateImmyCompliance
       "p_total", "p_healthy",                       \* calculatePatchCompliance
       "e_total", "e_managed",                       \* calculateEDRHealth
       "m_total", "m_passed" >>                      \* getPassRate

RiskPlan ==
    << "id_total", "id_mfa", "id_high", "id_medium", \* calculateIdentityRisk
       "em_risks",                                   \* calculateEmailRisk
       "ep_total", "ep_managed", "ep_critical", "ep_risks" >>

ExperiencePlan ==
    << "t_cur", "t_prev", "t_users",                 \* calculateTicketsPerUserTrend
       "r_tickets",                                  \* calculateRepeatIssueRate
       "sla_total", "sla_met",                       \* calculateSLAPerformance
       "ro_total", "ro_reopened",                    \* calculateReopenRate
       "ah_tickets" >>                               \* calculateAfterHoursIncidents

PlanOf(calc) ==
    CASE calc = "standards"  -> StandardsPlan
      [] calc = "risk"       -> RiskPlan
      [] calc = "experience" -> ExperiencePlan

Range(s) == {s[i] : i \in DOMAIN s}

SetQueries == {"em_risks", "ep_risks", "r_tickets", "ah_tickets"}

QNames == Range(StandardsPlan) \cup Range(RiskPlan) \cup Range(ExperiencePlan)

Q0 == [n \in QNames |-> IF n \in SetQueries THEN {} ELSE 0]

Query(name, db, c) ==
    CASE name = "s_total"     -> deviceCountByClientId(db, c)
      [] name = "s_managed"   -> deviceCountManagedByClientId(db, c)
      [] name = "i_pass"      -> controlCountByStatus(db, c, "pass")
      [] name = "i_fail"      -> controlCountByStatus(db, c, "fail")
      [] name = "i_unknown"   -> controlCountByStatus(db, c, "unknown")
      [] name = "i_pass2"     -> controlCountByStatus(db, c, "pass")
      [] name = "p_total"     -> deviceCountByClientId(db, c)
      [] name = "p_healthy"   -> Cardinality(deviceFindByHealthStatus(db, c, "healthy"))
      [] name = "e_total"     -> deviceCountByClientId(db, c)
      [] name = "e_managed"   -> deviceCountManagedByClientId(db, c)
      [] name = "m_total"     -> controlCountOfType(db, c, "m365_secure_score")
      [] name = "m_passed"    -> controlCountPassedOfType(db, c, "m365_secure_score")
      [] name = "id_total"    -> userCountByClientId(db, c)
      [] name = "id_mfa"      -> userCountMFAEnabled(db, c)
      [] name = "id_high"     -> userCountByRiskLevel(db, c, "high")
      [] name = "id_medium"   -> userCountByRiskLevel(db, c, "medium")
      [] name = "em_risks"    -> riskFindByType(db, c, "email")
      [] name = "ep_total"    -> deviceCountByClientId(db, c)
      [] name = "ep_managed"  -> deviceCountManagedByClientId(db, c)
      [] name = "ep_critical" -> Cardinality(deviceFindByHealthStatus(db, c, "critical"))
      [] name = "ep_risks"    -> riskFindByType(db, c, "endpoint")
      [] name = "t_cur"       -> Cardinality(ticketFindByDateRange(db, c, "cur"))
      [] name = "t_prev"      -> Cardinality(ticketFindByDateRange(db, c, "prev"))
      [] name = "t_users"     -> userCountByClientId(db, c)
      [] name = "r_tickets"   -> ticketFindByDateRange(db, c, "cur")
      [] name = "sla_total"   -> Cardinality(ticketFindByDateRange(db, c, "cur"))
      [] name = "sla_met"     -> ticketCountSLAMet(db, c, "cur")
      [] name = "ro_total"    -> Cardinality(ticketFindByDateRange(db, c, "cur"))
      [] name = "ro_reopened" -> ticketCountReopened(db, c, "cur")
      [] name = "ah_tickets"  -> ticketFindByDateRange(db, c, "cur")

\* The queries a calculator does not reach: the early returns.
Skipped(name, q) ==
    \/ /\ name \in Range(StandardsPlan) \ {"s_total", "s_managed"}
       /\ q["s_total"] = 0
    \/ /\ name = "i_pass2"
       /\ q["i_pass"] + q["i_fail"] + q["i_unknown"] = 0
    \/ /\ name \in {"id_mfa", "id_high", "id_medium"}
       /\ q["id_total"] = 0
    \/ /\ name \in {"ep_managed", "ep_critical", "ep_risks"}
       /\ q["ep_total"] = 0

\* The position of the next query after position pc, or past the plan's end.
NextPc(calc, q, pc) ==
    LET plan == PlanOf(calc)
        rest == {i \in (pc + 1)..Len(plan) : ~Skipped(plan[i], q)}
    IN  IF rest = {} THEN Len(plan) + 1
        ELSE CHOOSE i \in rest : \A j \in rest : i <= j

ReadAt(calc, db, c, q, pc) ==
    [q EXCEPT ![PlanOf(calc)[pc]] = Query(PlanOf(calc)[pc], db, c)]

\* All of a calculator's queries answered by one and the same store.
RECURSIVE RunPlan(_, _, _, _, _)
RunPlan(calc, db, c, q, pc) ==
    IF pc > Len(PlanOf(calc)) THEN q
    ELSE LET q2 == ReadAt(calc, db, c, q, pc)
         IN  RunPlan(calc, db, c, q2, NextPc(calc, q2, pc))

(***************************************************************************)
(* Where the doubles leave the exact value at a decision.                  *)
(*                                                                         *)
(* TotalsBelow: component scores whose weighted sum is exactly a tie       *)
(* (x.5) while the sum accumulated in doubles, 0 + s1*w1 + s2*w2 + ...,    *)
(* falls just below it.  EndpointsBelow: <<total, managed, critical, open  *)
(* endpoint risks>> whose exact endpoint riskScore is on a risk_level      *)
(* threshold while the double falls just below it.  TrendsBelow:           *)
(* <<current tickets, previous tickets, users>> whose exact trend          *)
(* percentage is on a threshold of the step function while the double      *)
(* falls just below it.                                                    *)
(***************************************************************************)
TotalsBelow ==
    { <<"standards",  << <<100, 1>>, <<67, 1>>, <<17, 1>>, <<100, 1>>, <<0, 1>> >> >>,
      <<"standards",  << <<90, 1>>, <<82, 1>>, <<78, 1>>, <<90, 1>>, <<72, 1>> >> >>,
      <<"standards",  << <<90, 1>>, <<82, 1>>, <<88, 1>>, <<90, 1>>, <<72, 1>> >> >>,
      <<"standards",  << <<94, 1>>, <<80, 1>>, <<84, 1>>, <<94, 1>>, <<72, 1>> >> >>,
      <<"standards",  << <<94, 1>>, <<82, 1>>, <<86, 1>>, <<94, 1>>, <<72, 1>> >> >>,
      <<"experience", << <<50, 1>>, <<0, 1>>, <<0, 1>>, <<82, 1>>, <<18, 1>> >> >> }

DoubleErrorOfTotal(calc, compScores) ==
    IF <<calc, compScores>> \in TotalsBelow THEN -1 ELSE 0

EndpointsBelow == { <<3, 3, 2, 1>> }

DoubleErrorOfEndpoint(total, managed, critical, open) ==
    IF <<total, managed, critical, open>> \in EndpointsBelow THEN -1 ELSE 0

TrendsBelow ==
    { <<4, 5, 3>>, <<6, 5, 3>>, <<8, 10, 3>>, <<9, 10, 3>>, <<11, 10, 3>>,
      <<12, 10, 3>>, <<6, 5, 5>>, <<5, 8, 5>>, <<7, 8, 5>>, <<9, 8, 5>>,
      <<12, 10, 5>>, <<4, 5, 6>>, <<6, 5, 6>>, <<8, 10, 6>>, <<9, 10, 6>>,
      <<11, 10, 6>>, <<12, 10, 6>> }

DoubleErrorOfTrend(cur, prev, users) ==
    IF <<cur, prev, users>> \in TrendsBelow THEN -1 ELSE 0

\* { ...component, weight: '20%' }
WithWeight(component, w) ==
    [k \in DOMAIN component \cup {"weight"} |->
        IF k = "weight" THEN w ELSE component[k]]

\* components.reduce((sum, c) => sum + c.score * c.weight, 0), exactly
WeightedTotal(components, weights) ==
    SumSeq([i \in DOMAIN components |->
                RMul(components[i].score, Frac(weights[i], 100))])

ScoresOf(components) == [i \in DOMAIN components |-> components[i].score]

\* Math.round(totalScore)
RoundTotal(calc, components, weights) ==
    MathRoundD(WeightedTotal(components, weights),
               DoubleErrorOfTotal(calc, ScoresOf(components)))

(***************************************************************************)
(* Standards score, from the answers q of its queries.                     *)
(***************************************************************************)
StandardsWeights == <<20, 30, 20, 15, 15>>       \* in hundredths

calculateDeviceCoverage(totalDevices, managedDevices) ==
    LET percentage == IF totalDevices > 0 THEN Pct(managedDevices, totalDevices)
                      ELSE Int2R(0)
    IN  [score |-> RMin(percentage, Int2R(100)),
         evidence |-> [total_devices |-> totalDevices,
                       managed_devices |-> managedDevices,
                       coverage_percentage |-> MathRound(percentage)]]

calculateImmyCompliance(q) ==
    LET totalControls == q["i_pass"] + q["i_fail"] + q["i_unknown"]
        passedControls == q["i_pass2"]
        percentage == Pct(passedControls, totalControls)
    IN  IF totalControls = 0
        THEN [score |-> Int2R(0),
              evidence |-> [description |-> "No Immy.Bot compliance data available"]]
        ELSE [score |-> Int2R(MathRound(percentage)),
              evidence |-> [total_controls |-> totalControls,
                            passed_controls |-> passedControls,
                            compliance_percentage |-> MathRound(percentage)]]

calculatePatchCompliance(q) ==
    LET totalDevices == q["p_total"]
        healthyDevices == q["p_healthy"]
        percentage == Pct(healthyDevices, totalDevices)
    IN  IF totalDevices = 0
        THEN [score |-> Int2R(0),
              evidence |-> [description |->
                                "No device data available for patch compliance"]]
        ELSE [score |-> Int2R(MathRound(percentage)),
              evidence |-> [total_devices |-> totalDevices,
                            healthy_devices |-> healthyDevices,
                            patch_percentage |-> MathRound(percentage)]]

calculateEDRHealth(q) ==
    LET totalDevices == q["e_total"]
        managedDevices == q["e_managed"]
        percentage == Pct(managedDevices, totalDevices)
    IN  IF totalDevices = 0
        THEN [score |-> Int2R(0),
              evidence |-> [description |-> "No device data available for EDR health"]]
        ELSE [score |-> Int2R(MathRound(percentage)),
              evidence |-> [total_devices |-> totalDevices,
                            devices_with_edr |-> managedDevices,
                            edr_coverage |-> MathRound(percentage)]]

\* controlModel.getPassRate from its two counts
getPassRate(totalCount, passedCount) ==
    IF totalCount = 0 THEN Int2R(0) ELSE Pct(passedCount, totalCount)

calculateM365SecureScore(q) ==
    LET passRate == getPassRate(q["m_total"], q["m_passed"])
    IN  IF passRate = Int2R(0)
        THEN [score |-> Int2R(0),
              evidence |-> [description |->
                                "No Microsoft 365 Secure Score data available"]]
        ELSE [score |-> Int2R(MathRound(passRate)),
              evidence |-> [secure_score_percentage |-> MathRound(passRate)]]

StandardsComponents(q) ==
    << calculateDeviceCoverage(q["s_total"], q["s_managed"]),
       calculateImmyCompliance(q),
       calculatePatchCompliance(q),
       calculateEDRHealth(q),
       calculateM365SecureScore(q) >>

\* calculateStandardsScore without its check for a client with no devices
calculateStandardsScoreNoCheck(q) ==
    LET components == StandardsComponents(q)
    IN  [score |-> Some(RoundTotal("standards", components, StandardsWeights)),
         breakdown |->
            [device_coverage   |-> WithWeight(components[1], "20%"),
             immy_compliance   |-> WithWeight(components[2], "30%"),
             patch_compliance  |-> WithWeight(components[3], "20%"),
             edr_health        |-> WithWeight(components[4], "15%"),
             m365_secure_score |-> WithWeight(components[5], "15%")]]

calculateStandardsScore(q) ==
    LET totalDevices == q["s_total"]
        components == StandardsComponents(q)
    IN  IF totalDevices = 0
        THEN [score |-> NULL,
              error |-> "Insufficient data: no devices found",
              breakdown |-> <<>>]
        ELSE [score |-> Some(RoundTotal("standards", components, StandardsWeights)),
              breakdown |->
                 [device_coverage   |-> WithWeight(components[1], "20%"),
                  immy_compliance   |-> WithWeight(components[2], "30%"),
                  patch_compliance  |-> WithWeight(components[3], "20%"),
                  edr_health        |-> WithWeight(components[4], "15%"),
                  m365_secure_score |-> WithWeight(components[5], "15%")]]

(***************************************************************************)
(* Risk score (higher is more risk).                                       *)
(***************************************************************************)
RiskWeights == <<30, 25, 25, 20>>                \* in hundredths

\* riskScore < 25 ? 'Low' : riskScore < 50 ? 'Medium' : 'High'
RiskLevelOf(riskScore, err) ==
    IF DLt(riskScore, err, 25) THEN "Low"
    ELSE IF DLt(riskScore, err, 50) THEN "Medium" ELSE "High"

OpenOf(risks) == {r \in risks : r.status = "open"}

\* MFA coverage counted as risk
calculateIdentityRiskInverted(q) ==
    LET totalUsers == q["id_total"]
        mfaCoverage == Pct(q["id_mfa"], totalUsers)
        riskScore ==
            RAdd(RAdd(RMul(mfaCoverage, Frac(6, 10)),
                      RMul(Pct(q["id_high"], totalUsers), Frac(3, 10))),
                 RMul(Pct(q["id_medium"], totalUsers), Frac(1, 10)))
    IN  IF totalUsers = 0
        THEN [score |-> Int2R(50), risk_level |-> "Medium",
              evidence |-> [description |->
                     "No user data available for identity risk assessment"]]
        ELSE [score |-> Int2R(MathRound(riskScore)),
              risk_level |-> RiskLevelOf(riskScore, 0),
              evidence |-> [total_users |-> totalUsers,
                            mfa_enabled |-> q["id_mfa"],
                            mfa_coverage |-> MathRound(mfaCoverage),
                            high_risk_users |-> q["id_high"],
                            medium_risk_users |-> q["id_medium"]]]

\* no users read as no risk
calculateIdentityRiskLow(q) ==
    [score |-> Int2R(0), risk_level |-> "Low",
     evidence |-> [total_users |-> q["id_total"]]]

calculateIdentityRisk(q) ==
    LET totalUsers == q["id_total"]
        mfaEnabled == q["id_mfa"]
        highRiskUsers == q["id_high"]
        mediumRiskUsers == q["id_medium"]
        mfaCoverage == Pct(mfaEnabled, totalUsers)
        riskScore ==
            RAdd(RAdd(RMul(RSub(Int2R(100), mfaCoverage), Frac(6, 10)),
                      RMul(Pct(highRiskUsers, totalUsers), Frac(3, 10))),
                 RMul(Pct(mediumRiskUsers, totalUsers), Frac(1, 10)))
    IN  IF totalUsers = 0
        THEN [score |-> Int2R(50), risk_level |-> "Medium",
              evidence |-> [description |->
                     "No user data available for identity risk assessment"]]
        ELSE [score |-> Int2R(MathRound(riskScore)),
              risk_level |-> RiskLevelOf(riskScore, 0),
              evidence |-> [total_users |-> totalUsers,
                            mfa_enabled |-> mfaEnabled,
                            mfa_coverage |-> MathRound(mfaCoverage),
                            high_risk_users |-> highRiskUsers,
                            medium_risk_users |-> mediumRiskUsers]]

calculateEmailRisk(q) ==
    LET emailRisks == q["em_risks"]
        open == Cardinality(OpenOf(emailRisks))
        riskScore == IF open = 0 THEN 10
                     ELSE IF open <= 3 THEN 30
                     ELSE IF open <= 10 THEN 60 ELSE 90
    IN  [score |-> Int2R(riskScore),
         risk_level |-> RiskLevelOf(Int2R(riskScore), 0),
         evidence |-> [total_email_alerts |-> Cardinality(emailRisks),
                       open_email_alerts |-> open]]

calculateEndpointRisk(q) ==
    LET totalDevices == q["ep_total"]
        managedDevices == q["ep_managed"]
        criticalDevices == q["ep_critical"]
        open == Cardinality(OpenOf(q["ep_risks"]))
        unmanagedPercentage == Pct(totalDevices - managedDevices, totalDevices)
        criticalPercentage == Pct(criticalDevices, totalDevices)
        riskScore ==
            RAdd(RAdd(RMul(unmanagedPercentage, Frac(4, 10)),
                      RMul(criticalPercentage, Frac(3, 10))),
                 RMin(Int2R(open * 5), Int2R(30)))
        err == DoubleErrorOfEndpoint(totalDevices, managedDevices,
                                     criticalDevices, open)
    IN  IF totalDevices = 0
        THEN [score |-> Int2R(50), risk_level |-> "Medium",
              evidence |-> [description |->
                     "No device data available for endpoint risk assessment"]]
        ELSE [score |-> Int2R(MathRoundD(riskScore, err)),
              risk_level |-> RiskLevelOf(riskScore, err),
              evidence |-> [total_devices |-> totalDevices,
                            unmanaged_devices |-> totalDevices - managedDevices,
                            critical_health_devices |-> criticalDevices,
                            open_endpoint_risks |-> open]]

calculateBusinessModifier ==
    [score |-> Int2R(40), risk_level |-> "Medium",
     evidence |-> [description |-> "Standard business risk profile"]]

RiskComponents(q) ==
    << calculateIdentityRisk(q), calculateEmailRisk(q),
       calculateEndpointRisk(q), calculateBusinessModifier >>

calculateRiskScore(q) ==
    LET components == RiskComponents(q)
    IN  [score |-> Some(RoundTotal("risk", components, RiskWeights)),
         breakdown |->
            [identity_risk     |-> WithWeight(components[1], "30%"),
             email_risk        |-> WithWeight(components[2], "25%"),
             endpoint_risk     |-> WithWeight(components[3], "25%"),
             business_modifier |-> WithWeight(components[4], "20%")]]

(***************************************************************************)
(* Experience score.                                                       *)
(***************************************************************************)
ExperienceWeights == <<25, 20, 25, 15, 15>>      \* in hundredths

\* the step function without its branch for a trend of exactly 0
TrendScoreNoZero(trendPercentage, err) ==
    IF DLt(trendPercentage, err, -20) THEN 90
    ELSE IF DLt(trendPercentage, err, -10) THEN 75
    ELSE IF DLt(trendPercentage, err, 0) THEN 60
    ELSE IF DLt(trendPercentage, err, 10) THEN 40
    ELSE IF DLt(trendPercentage, err, 20) THEN 30
    ELSE 20

\* the step function of calculateTicketsPerUserTrend
TrendScore(trendPercentage, err) ==
    IF DLt(trendPercentage, err, -20) THEN 90
    ELSE IF DLt(trendPercentage, err, -10) THEN 75
    ELSE IF DLt(trendPercentage, err, 0) THEN 60
    ELSE IF trendPercentage = Int2R(0) THEN 50
    ELSE IF DLt(trendPercentage, err, 10) THEN 40
    ELSE IF DLt(trendPercentage, err, 20) THEN 30
    ELSE 20

\* The evidence leaves out the two toFixed(1) strings and the description.
calculateTicketsPerUserTrend(q) ==
    LET cur == q["t_cur"]
        prev == q["t_prev"]
        userCount == q["t_users"]
        \* ((cur/users - prev/users) / (prev/users)) * 100
        trendPercentage == IF prev > 0 THEN Frac(100 * (cur - prev), prev)
                           ELSE Int2R(0)
        err == DoubleErrorOfTrend(cur, prev, userCount)
    IN  IF userCount = 0
        THEN [score |-> Int2R(50),
              evidence |-> [description |->
                  "No user data available for tickets per user calculation"]]
        ELSE [score |-> Int2R(TrendScore(trendPercentage, err)),
              evidence |-> [current_quarter_tickets |-> cur,
                            previous_quarter_tickets |-> prev,
                            user_count |-> userCount,
                            trend_percentage |-> MathRoundD(trendPercentage, err)]]

\* ticket.category || 'Unknown'
CategoryOf(ticket) == IF ticket.category = "" THEN "Unknown" ELSE ticket.category

calculateRepeatIssueRate(q) ==
    LET tickets == q["r_tickets"]
        categories == {CategoryOf(t) : t \in tickets}
        categoryCount == [cat \in categories |->
                             Cardinality({t \in tickets : CategoryOf(t) = cat})]
        repeatCategories == Cardinality({cat \in categories : categoryCount[cat] > 2})
        totalCategories == Cardinality(categories)
        repeatRate == IF totalCategories > 0
                      THEN Pct(repeatCategories, totalCategories) ELSE Int2R(0)
        score == RMax(Int2R(0), RSub(Int2R(100), repeatRate))
    IN  IF tickets = {}
        THEN [score |-> Int2R(50),
              evidence |-> [description |->
                  "No ticket data available for repeat issue calculation"]]
        ELSE [score |-> Int2R(MathRound(score)),
              evidence |-> [total_tickets |-> Cardinality(tickets),
                            total_categories |-> totalCategories,
                            repeat_categories |-> repeatCategories,
                            repeat_rate |-> MathRound(repeatRate)]]

calculateSLAPerformance(q) ==
    LET totalTickets == q["sla_total"]
        slaMet == q["sla_met"]
        slaPercentage == Pct(slaMet, totalTickets)
    IN  IF totalTickets = 0
        THEN [score |-> Int2R(50),
              evidence |-> [description |->
                  "No ticket data available for SLA performance calculation"]]
        ELSE [score |-> Int2R(MathRound(slaPercentage)),
              evidence |-> [total_tickets |-> totalTickets,
                            sla_met |-> slaMet,
                            sla_percentage |-> MathRound(slaPercentage)]]

\* the reopen score without its floor at 0
calculateReopenRateNoFloor(q) ==
    LET totalTickets == q["ro_total"]
        reopenedTickets == q["ro_reopened"]
        reopenPercentage == Pct(reopenedTickets, totalTickets)
        score == RSub(Int2R(100), RMul(reopenPercentage, Int2R(2)))
    IN  IF totalTickets = 0
        THEN [score |-> Int2R(50),
              evidence |-> [description |->
                  "No ticket data available for reopen rate calculation"]]
        ELSE [score |-> Int2R(MathRound(score)),
              evidence |-> [total_tickets |-> totalTickets,
                            reopened_tickets |-> reopenedTickets,
                            reopen_percentage |-> MathRound(reopenPercentage)]]

calculateReopenRate(q) ==
    LET totalTickets == q["ro_total"]
        reopenedTickets == q["ro_reopened"]
        reopenPercentage == Pct(reopenedTickets, totalTickets)
        score == RMax(Int2R(0),
                      RSub(Int2R(100), RMul(reopenPercentage, Int2R(2))))
    IN  IF totalTickets = 0
        THEN [score |-> Int2R(50),
              evidence |-> [description |->
                  "No ticket data available for reopen rate calculation"]]
        ELSE [score |-> Int2R(MathRound(score)),
              evidence |-> [total_tickets |-> totalTickets,
                            reopened_tickets |-> reopenedTickets,
                            reopen_percentage |-> MathRound(reopenPercentage)]]

calculateAfterHoursIncidents(q) ==
    LET tickets == q["ah_tickets"]
        afterHoursTickets == {t \in tickets : t.after_hours}
        afterHoursPercentage ==
            Pct(Cardinality(afterHoursTickets), Cardinality(tickets))
        score == RMax(Int2R(0),
                      RSub(Int2R(100), RMul(afterHoursPercentage, Frac(3, 2))))
    IN  IF tickets = {}
        THEN [score |-> Int2R(50),
              evidence |-> [description |->
                  "No ticket data available for after-hours calculation"]]
        ELSE [score |-> Int2R(MathRound(score)),
              evidence |-> [total_tickets |-> Cardinality(tickets),
                            after_hours_tickets |-> Cardinality(afterHoursTickets),
                            after_hours_percentage |->
                                MathRound(afterHoursPercentage)]]

ExperienceComponents(q) ==
    << calculateTicketsPerUserTrend(q), calculateRepeatIssueRate(q),
       calculateSLAPerformance(q), calculateReopenRate(q),
       calculateAfterHoursIncidents(q) >>

calculateExperienceScore(q) ==
    LET components == ExperienceComponents(q)
    IN  [score |-> Some(RoundTotal("experience", components, ExperienceWeights)),
         breakdown |->
            [tickets_per_user_trend |-> WithWeight(components[1], "25%"),
             repeat_issue_rate      |-> WithWeight(components[2], "20%"),
             sla_performance        |-> WithWeight(components[3], "25%"),
             reopen_rate            |-> WithWeight(components[4], "15%"),
             after_hours_incidents  |-> WithWeight(components[5], "15%")]]

\* A calculator's result from the answers of its queries.
Calculate(calc, q) ==
    CASE calc = "standards"  -> calculateStandardsScore(q)
      [] calc = "risk"       -> calculateRiskScore(q)
      [] calc = "experience" -> calculateExperienceScore(q)

\* A calculator's result when one store answers all of its queries.
ScoreOn(calc, db, c) == Calculate(calc, RunPlan(calc, db, c, Q0, 1))

Calcs == {"standards", "risk", "experience"}

\* The three results the scores route and the worker compute for a client.
AllScores(db, c) == [calc \in Calcs |-> ScoreOn(calc, db, c)]

(***************************************************************************)
(* The stores a score calculation is drawn over.  The rows of a client are *)
(* built from counts: of n rows the first m have the one attribute, the    *)
(* first h the other, so that every combination of the counts the          *)
(* calculators read occurs.  Row ids are c * IdBase + i.                   *)
(***************************************************************************)
IdBase == 100

DeviceRows(c, n, m, h, k) ==
    { [id |-> c * IdBase + i, client_id |-> c, external_id |-> i,
       managed |-> (i <= m),
       health_status |-> IF i <= h THEN "healthy"
                         ELSE IF i <= h + k THEN "critical" ELSE "warning"]
      : i \in 1..n }

\* p passing, f failing, u unknown immy baselines, then mp passing and mf
\* failing m365 secure score controls
ControlRows(c, p, f, u, mp, mf) ==
    { [id |-> c * IdBase + i, client_id |-> c, external_id |-> i,
       control_type |-> IF i <= p + f + u THEN "immy_baseline"
                        ELSE "m365_secure_score",
       status |-> IF i <= p THEN "pass"
                  ELSE IF i <= p + f THEN "fail"
                  ELSE IF i <= p + f + u THEN "unknown"
                  ELSE IF i <= p + f + u + mp THEN "pass" ELSE "fail"]
      : i \in 1..(p + f + u + mp + mf) }

UserRows(c, n, mfa, high, medium) ==
    { [id |-> c * IdBase + i, client_id |-> c, external_id |-> i,
       mfa_enabled |-> (i <= mfa),
       risk_level |-> IF i <= high THEN "high"
                      ELSE IF i <= high + medium THEN "medium" ELSE "low"]
      : i \in 1..n }

\* of n risks of a type the first o are open
RiskRows(c, ty, base, n, o) ==
    { [id |-> c * IdBase + base + i, client_id |-> c, external_id |-> base + i,
       risk_type |-> ty,
       status |-> IF i <= o THEN "open" ELSE "resolved"]
      : i \in 1..n }

\* n tickets of a quarter: s met their SLA, r were reopened, a came in after
\* hours, and the first g share the category "Network" (the others have none)
TicketRows(c, quarter, base, n, s, r, a, g) ==
    { [id |-> c * IdBase + base + i, client_id |-> c, external_id |-> base + i,
       quarter |-> quarter,
       sla_met |-> (i <= s),
       reopen_count |-> IF i > n - r THEN 1 ELSE 0,
       after_hours |-> (i <= a),
       category |-> IF i <= g THEN "Network" ELSE ""]
      : i \in 1..n }

DeviceSets(c) ==
    { DeviceRows(c, n, m, h, k) :
        <<n, m, h, k>> \in { x \in (0..MaxDev) \X (0..MaxDev) \X (0..MaxDev) \X (0..MaxDev) :
                               x[2] <= x[1] /\ x[3] + x[4] <= x[1] } }

ControlSets(c) ==
    { ControlRows(c, x[1], x[2], x[3], x[4], x[5]) :
        x \in { y \in (0..MaxCtl) \X (0..MaxCtl) \X (0..MaxCtl) \X (0..MaxCtl) \X (0..MaxCtl) :
                  y[1] + y[2] + y[3] + y[4] + y[5] <= MaxCtl } }

UserSets(c) ==
    { UserRows(c, x[1], x[2], x[3], x[4]) :
        x \in { y \in (0..MaxUsr) \X (0..MaxUsr) \X (0..MaxUsr) \X (0..MaxUsr) :
                  y[2] <= y[1] /\ y[3] + y[4] <= y[1] } }

RiskSets(c, ty) ==
    { RiskRows(c, ty, 0, x[1], x[2]) :
        x \in { y \in (0..MaxRsk) \X (0..MaxRsk) : y[2] <= y[1] } }

TicketSets(c) ==
    { TicketRows(c, "cur", 0, x[1], x[2], x[3], x[4], x[5])
        \cup TicketRows(c, "prev", MaxTkt, x[6], 0, 0, 0, 0) :
        x \in { y \in (0..MaxTkt) \X (0..MaxTkt) \X (0..MaxTkt) \X (0..MaxTkt)
                      \X (0..MaxTkt) \X (0..MaxTkt) :
                  y[2] <= y[1] /\ y[3] <= y[1] /\ y[4] <= y[1] /\ y[5] <= y[1] } }

\* the rows of the other client, and an old ticket of nobody's quarter
OtherRows(c) ==
    [clients  |-> {},
     devices  |-> DeviceRows(c, 2, 1, 1, 1),
     controls |-> ControlRows(c, 1, 1, 0, 1, 0),
     users    |-> UserRows(c, 2, 1, 1, 0),
     risks    |-> RiskRows(c, "email", 0, 1, 1) \cup RiskRows(c, "endpoint", 1, 1, 1),
     tickets  |-> TicketRows(c, "cur", 0, 2, 1, 1, 1, 0)
                    \cup TicketRows(c, "old", 2, 1, 1, 0, 0, 0)]

ClientRows ==
    { [id |-> c, external_id |-> c, source |-> "connectwise"] : c \in ClientIds }

StoreOf(devices, controls, users, risks, tickets, others) ==
    [clients  |-> ClientRows,
     devices  |-> devices  \cup (IF others THEN OtherRows(2).devices ELSE {}),
     controls |-> controls \cup (IF others THEN OtherRows(2).controls ELSE {}),
     users    |-> users    \cup (IF others THEN OtherRows(2).users ELSE {}),
     risks    |-> risks    \cup (IF others THEN OtherRows(2).risks ELSE {}),
     tickets  |-> tickets  \cup (IF others THEN OtherRows(2).tickets ELSE {})]

\* Stores on which the doubles leave the exact value: a Standards total of
\* exactly 58.5, an Experience total of exactly 27.5, an endpoint riskScore
\* of exactly 25.
ScenarioStores ==
    { StoreOf(DeviceRows(1, 6, 6, 1, 0), ControlRows(1, 2, 1, 0, 0, 0),
              {}, {}, {}, FALSE),
      StoreOf({}, {}, {}, {}, TicketRows(1, "cur", 0, 11, 0, 1, 6, 11), FALSE),
      StoreOf(DeviceRows(1, 3, 3, 0, 2), {}, {},
              RiskRows(1, "endpoint", 0, 1, 1), {}, FALSE) }

ScoreStores ==
    { StoreOf(d, ctl, {}, {}, {}, o) :
        d \in DeviceSets(1), ctl \in ControlSets(1), o \in BOOLEAN }
    \cup { StoreOf({}, {}, u, r, {}, o) :
        u \in UserSets(1), r \in RiskSets(1, "email"), o \in BOOLEAN }
    \cup { StoreOf(d, {}, {}, r, {}, o) :
        d \in DeviceSets(1), r \in RiskSets(1, "endpoint"), o \in BOOLEAN }
    \cup { StoreOf({}, {}, UserRows(1, n, 0, 0, 0), {}, t, o) :
        n \in 0..MaxUsr, t \in TicketSets(1), o \in BOOLEAN }
    \cup ScenarioStores

(***************************************************************************)
(* The idle values of the parts of the state a specification leaves alone. *)
(***************************************************************************)
NoScores   == [client |-> 0, results |-> <<>>]
NoScorer   == [client |-> 0, calc |-> "", q |-> Q0, pc |-> 0,
               start |-> EmptyStore, since |-> 0]
NoJob      == [status |-> "none"]
IdleIds    == [t \in Tables |-> 1]
NoCache    == <<>>
NoCalls    == <<>>

(***************************************************************************)
(* Specification SpecScore: the three calculators run for a client over a  *)
(* store nobody writes to.                                                 *)
(***************************************************************************)
InitScore ==
    /\ store \in ScoreStores
    /\ nextId = IdleIds
    /\ clientOrder = <<1, 2>>
    /\ scores = NoScores
    /\ scorer = NoScorer
    /\ workers = <<>>
    /\ hist = <<>>
    /\ cache = NoCache
    /\ calls = NoCalls
    /\ job = NoJob

\* Promise.all([calculateStandardsScore(id), calculateRiskScore(id),
\*              calculateExperienceScore(id)])
CalculateScores(c) ==
    /\ scores' = [client |-> c, results |-> AllScores(store, c)]
    /\ UNCHANGED <<store, nextId, clientOrder, scorer, workers, hist, job, cache, calls>>

NextScore == \E c \in ClientIds : CalculateScores(c)

SpecScore == InitScore /\ [][NextScore]_vars

(***************************************************************************)
(* The models' upsert: find the row by its key, then update it in place or *)
(* insert a new one.  rows is what the SELECT sees.                        *)
(***************************************************************************)
\* a lookup that never finds the row, so that every upsert inserts
MatchesNothing(rows, t, item) == {}

\* .where({ external_id, client_id }) (for clients: { external_id, source })
Matches(rows, t, item) ==
    {r \in rows : /\ r.external_id = item.external_id
                  /\ IF t = "clients" THEN r.source = item.source
                     ELSE r.client_id = item.client_id}

\* .where({ id: existing.id }).update(item)
Updated(row, item) == item @@ row

\* .insert(item).returning('id')
Inserted(id, item) == [id |-> id] @@ item

(***************************************************************************)
(* Specification SpecLeak: single rows of either client are upserted       *)
(* through the models or deleted, MaxWrites times.                         *)
(***************************************************************************)
MaxWrites == 1

NewExternalId == 2 * IdBase

LeakItems(t) ==
    CASE t = "devices" ->
           [client_id : ClientIds, external_id : {1, NewExternalId},
            managed : BOOLEAN, health_status : {"healthy", "critical"}]
      [] t = "controls" ->
           [client_id : ClientIds, external_id : {1, NewExternalId},
            control_type : {"immy_baseline", "m365_secure_score"},
            status : {"pass", "fail"}]
      [] t = "users" ->
           [client_id : ClientIds, external_id : {1, NewExternalId},
            mfa_enabled : BOOLEAN, risk_level : {"high", "low"}]
      [] t = "risks" ->
           [client_id : ClientIds, external_id : {1, NewExternalId},
            risk_type : {"email", "endpoint"}, status : {"open", "resolved"}]
      [] t = "tickets" ->
           [client_id : ClientIds, external_id : {1, NewExternalId},
            quarter : {"cur", "prev"}, sla_met : BOOLEAN, reopen_count : {0, 1},
            after_hours : BOOLEAN, category : {"Network"}]

InitLeak ==
    /\ store \in { StoreOf(OtherRows(1).devices, OtherRows(1).controls,
                           OtherRows(1).users, OtherRows(1).risks,
                           OtherRows(1).tickets, TRUE),
                   StoreOf({}, {}, {}, {}, {}, TRUE) }
    /\ nextId = [t \in Tables |-> 3 * IdBase]
    /\ clientOrder = <<1, 2>>
    /\ scores = NoScores
    /\ scorer = NoScorer
    /\ workers = <<>>
    /\ hist = <<>>
    /\ cache = NoCache
    /\ calls = NoCalls
    /\ job = NoJob

\* model.upsert(item) with the db handle, nothing else running
ModelUpsert(t, item) ==
    /\ Len(hist) < MaxWrites
    /\ IF Matches(store[t], t, item) = {}
       THEN /\ store' = [store EXCEPT ![t] = @ \cup {Inserted(nextId[t], item)}]
            /\ nextId' = [nextId EXCEPT ![t] = @ + 1]
            /\ hist' = Append(hist, [op |-> "insert", client |-> item.client_id])
       ELSE /\ \E r \in Matches(store[t], t, item) :
                 store' = [store EXCEPT ![t] = (@ \ {r}) \cup {Updated(r, item)}]
            /\ hist' = Append(hist, [op |-> "update", client |-> item.client_id])
            /\ UNCHANGED nextId
    /\ UNCHANGED <<clientOrder, scores, scorer, workers, job, cache, calls>>

\* a row removed (the tables' rows go with their client: onDelete CASCADE)
DeleteRow(t, r) ==
    /\ Len(hist) < MaxWrites
    /\ r \in store[t]
    /\ store' = [store EXCEPT ![t] = @ \ {r}]
    /\ hist' = Append(hist, [op |-> "delete", client |-> r.client_id])
    /\ UNCHANGED <<nextId, clientOrder, scores, scorer, workers, job, cache, calls>>

NextLeak ==
    \E t \in Tables \ {"clients"} :
        \/ \E item \in LeakItems(t) : ModelUpsert(t, item)
        \/ \E r \in store[t] : DeleteRow(t, r)

SpecLeak == InitLeak /\ [][NextLeak]_vars

(***************************************************************************)
(* The sync routes.  A request gets its batch from the adapter, opens a    *)
(* transaction, upserts the batch item by item (a SELECT, then an UPDATE   *)
(* or an INSERT, each a statement of its own) and commits.  The database   *)
(* is PostgreSQL at READ COMMITTED: a statement sees the rows committed    *)
(* when it starts and its own transaction's writes; an UPDATE waits for    *)
(* the row's lock; only clients has a unique index (external_id, source).  *)
(* An external_id of 0 stands for undefined.                               *)
(***************************************************************************)
MaxRuns == 2

Procs == {1, 2}

Routes == {"connectwise", "immy", "m365"}

EmptyBatch ==
    [clients |-> <<>>, agreements |-> <<>>, tickets |-> <<>>, devices |-> <<>>,
     controls |-> <<>>, users |-> <<>>, risks |-> <<>>]

\* ConnectWiseAdapter.normalizeClient / normalizeTicket / normalizeDevice
Company(n) == [external_id |-> n, source |-> "connectwise"]

\* ConnectWiseAdapter.normalizeAgreement
CWAgreement == [external_id |-> 3]

CWTicket ==
    [external_id |-> 2, quarter |-> "cur", sla_met |-> TRUE, reopen_count |-> 0,
     after_hours |-> FALSE, category |-> "Unknown"]

CWDevice == [external_id |-> 1, managed |-> TRUE, health_status |-> "healthy"]

\* ImmyAdapter.normalizeDevice / normalizeControl
ImmyDevice(ext, health) ==
    [external_id |-> ext, managed |-> TRUE, health_status |-> health]

ImmyControl(st) ==
    [external_id |-> 1, control_type |-> "immy_baseline", status |-> st]

\* The batches an adapter's sync returns.
Batches(route) ==
    CASE route = "connectwise" ->
           { [EmptyBatch EXCEPT !.tickets = <<CWTicket>>, !.devices = <<CWDevice>>],
             [EmptyBatch EXCEPT !.clients = <<Company(1)>>],
             [EmptyBatch EXCEPT !.clients = <<Company(1)>>,
                                !.agreements = <<CWAgreement>>,
                                !.tickets = <<CWTicket>>, !.devices = <<CWDevice>>],
             [EmptyBatch EXCEPT !.clients = <<Company(1), Company(2)>>,
                                !.tickets = <<CWTicket>>, !.devices = <<CWDevice>>] }
      [] route = "immy" ->
           { [EmptyBatch EXCEPT !.devices = <<ImmyDevice(1, "healthy")>>,
                                !.controls = <<ImmyControl("pass")>>],
             [EmptyBatch EXCEPT !.devices = <<ImmyDevice(1, "critical"),
                                              ImmyDevice(1, "healthy")>>],
             [EmptyBatch EXCEPT !.devices = <<ImmyDevice(0, "healthy")>>],
             [EmptyBatch EXCEPT !.controls = <<ImmyControl("fail")>>] }
      [] route = "m365" -> { EmptyBatch }

\* batchUpsert(items) called without the transaction: trx = db by default
HandleOfDefault(route, t) == "db"

\* the handle a route passes to a model's batchUpsert
HandleOf(route, t) == "trx"

IdleWorker ==
    [pc |-> "idle", route |-> "", batch |-> EmptyBatch, todo |-> <<>>,
     found |-> 0, tx |-> {}, clients |-> <<>>, before |-> EmptyStore]

\* list.map(item => ({ ...item, client_id })), as <<table, item>>
ItemsOf(t, list, cid) ==
    [i \in DOMAIN list |-> <<t, [client_id |-> cid] @@ list[i]>>]

\* clientIdMap[ticket.external_id] || clients[0]?.id  (0: neither)
TicketClient(ticket, clients) ==
    LET hits == {i \in DOMAIN clients : clients[i].external_id = ticket.external_id}
    IN  IF hits # {} THEN clients[CHOOSE i \in hits : \A j \in hits : j <= i].id
        ELSE IF clients # <<>> THEN clients[1].id ELSE 0

\* What a route upserts once it knows its clients.
RestItems(route, batch, clients) ==
    LET first == IF clients = <<>> THEN 0 ELSE clients[1].id
        tickets == [i \in DOMAIN batch.tickets |->
                       <<"tickets", [client_id |-> TicketClient(batch.tickets[i], clients)]
                                       @@ batch.tickets[i]>>]
    IN  CASE route = "connectwise" ->
               SelectSeq(tickets, LAMBDA x : x[2].client_id # 0)
                  \o SelectSeq(ItemsOf("devices", batch.devices, first),
                               LAMBDA x : x[2].client_id # 0)
          [] route = "immy" ->
               ItemsOf("devices", batch.devices, first)
                  \o ItemsOf("controls", batch.controls, first)
          [] route = "m365" ->
               ItemsOf("users", batch.users, first)
                  \o ItemsOf("controls", batch.controls, first)
                  \o ItemsOf("risks", batch.risks, first)

\* The rows of table t a statement of worker w sees through a handle.
Visible(w, t, handle) ==
    LET own == {x[2] : x \in {y \in w.tx : y[1] = t}}
    IN  IF handle = "db" THEN store[t]
        ELSE {r \in store[t] : \A n \in own : n.id # r.id} \cup own

\* The committed store with a transaction's writes applied.
Applied(db, tx) ==
    [t \in Tables |->
        LET own == {x[2] : x \in {y \in tx : y[1] = t}}
        IN  {r \in db[t] : \A n \in own : n.id # r.id} \cup own]

InitSync ==
    /\ \/ /\ store = EmptyStore
          /\ clientOrder = <<>>
          /\ nextId = IdleIds
       \/ /\ store = [EmptyStore EXCEPT !.clients = {[id |-> 1] @@ Company(1)}]
          /\ clientOrder = <<1>>
          /\ nextId = [IdleIds EXCEPT !.clients = 2]
    /\ scores = NoScores
    /\ scorer = NoScorer
    /\ workers = [p \in Procs |-> IdleWorker]
    /\ hist = <<>>
    /\ cache = NoCache
    /\ calls = NoCalls
    /\ job = NoJob

\* the number of the items of table t among the items a route upserts
CountOf(items, t) == Len(SelectSeq(items, LAMBDA x : x[1] = t))

\* record_counts of the result a route's transaction returns
RecordCounts(w) ==
    LET rest == RestItems(w.route, w.batch, w.clients)
    IN  CASE w.route = "connectwise" ->
               [clients |-> Len(w.clients),
                agreements |-> Len(w.batch.agreements),
                tickets |-> CountOf(rest, "tickets"),
                devices |-> CountOf(rest, "devices")]
          [] w.route = "immy" ->
               [devices |-> Len(w.batch.devices),
                controls |-> Len(w.batch.controls)]
          [] w.route = "m365" ->
               [users |-> Len(w.batch.users),
                controls |-> Len(w.batch.controls),
                risks |-> Len(w.batch.risks)]

\* The request of worker p ends: its transaction's writes are dropped (ok
\* FALSE) or were committed; the run is logged with the rows it wrote and
\* the record_counts of its response.
Ended(p, ok, after) ==
    /\ workers' = [workers EXCEPT ![p] = IdleWorker]
    /\ hist' = Append(hist, [route |-> workers[p].route, batch |-> workers[p].batch,
                             ok |-> ok, writes |-> Cardinality(workers[p].tx),
                             rows |-> workers[p].tx,
                             record_counts |-> RecordCounts(workers[p]),
                             before |-> workers[p].before, after |-> after])

\* After a stage: the next item's SELECT, or the commit.
Continue(w, todo) ==
    [w EXCEPT !.todo = todo, !.found = 0,
              !.pc = IF todo = <<>> THEN "commit" ELSE "find"]

\* POST /sync/<route>: adapter.sync(credentials) returned batch, and
\* db.transaction begins
StartSync(p, route, batch) ==
    LET w == [IdleWorker EXCEPT !.route = route, !.batch = batch, !.before = store]
    IN  /\ workers[p].pc = "idle"
        /\ Len(hist) + Cardinality({q \in Procs : workers[q].pc # "idle"}) < MaxRuns
        /\ workers' = [workers EXCEPT ![p] =
              IF route # "connectwise" THEN [w EXCEPT !.pc = "findAll"]
              ELSE IF batch.clients # <<>>
                   THEN Continue(w, [i \in DOMAIN batch.clients |->
                                          <<"clients", batch.clients[i]>>])
                   ELSE Continue(w, RestItems(route, batch, <<>>))]
        /\ UNCHANGED <<store, nextId, clientOrder, scores, scorer, hist, job, cache, calls>>

\* const clients = await clientModel.findAll()  (the db handle, no ORDER BY)
FindAllClients(p) ==
    LET w == workers[p]
        first == CHOOSE r \in store.clients : r.id = clientOrder[1]
    IN  /\ w.pc = "findAll"
        /\ IF store.clients = {}
           THEN Ended(p, FALSE, store)         \* 'No clients found...'
           ELSE /\ workers' = [workers EXCEPT ![p] =
                       Continue(w, RestItems(w.route, w.batch, <<first>>))]
                /\ UNCHANGED hist
        /\ UNCHANGED <<store, nextId, clientOrder, scores, scorer, job, cache, calls>>

\* const existing = await trx(t).where({ external_id, client_id }).first()
Find(p) ==
    LET w == workers[p]
        t == Head(w.todo)[1]
        item == Head(w.todo)[2]
        m == Matches(Visible(w, t, HandleOf(w.route, t)), t, item)
    IN  /\ w.pc = "find"
        /\ IF item.external_id = 0
           THEN Ended(p, FALSE, store)         \* knex: undefined binding
           ELSE /\ \E f \in (IF m = {} THEN {0} ELSE {r.id : r \in m}) :
                      workers' = [workers EXCEPT ![p] =
                                     [w EXCEPT !.found = f, !.pc = "write"]]
                /\ UNCHANGED hist
        /\ UNCHANGED <<store, nextId, clientOrder, scores, scorer, job, cache, calls>>

\* if (existing) update(item) where id = existing.id; else insert(item);
\* then the row is read back
Write(p) ==
    LET w == workers[p]
        t == Head(w.todo)[1]
        item == Head(w.todo)[2]
        handle == HandleOf(w.route, t)
        others == UNION {workers[q].tx : q \in Procs \ {p}}
        row == IF w.found # 0
               THEN Updated(CHOOSE r \in Visible(w, t, "trx") : r.id = w.found, item)
               ELSE Inserted(nextId[t], item)
        taken == Matches(Visible(w, t, "trx"), t, item) # {}
        clients == IF t = "clients" THEN Append(w.clients, row) ELSE w.clients
        todo == IF t = "clients" /\ Tail(w.todo) = <<>>
                THEN RestItems(w.route, w.batch, clients) ELSE Tail(w.todo)
    IN  /\ w.pc = "write"
        \* the row's lock, or the index entry of an insert in flight
        /\ \A x \in others :
              x[1] = t => /\ x[2].id # w.found
                          /\ ~(w.found = 0 /\ t = "clients"
                                  /\ Matches({x[2]}, t, item) # {})
        /\ nextId' = IF w.found = 0 THEN [nextId EXCEPT ![t] = @ + 1] ELSE nextId
        /\ IF w.found = 0 /\ t = "clients" /\ taken
           THEN /\ Ended(p, FALSE, store)      \* unique violation
                /\ UNCHANGED store
           ELSE /\ UNCHANGED hist
                /\ IF handle = "trx"
                   THEN /\ workers' = [workers EXCEPT ![p] =
                              [Continue(w, todo) EXCEPT
                                  !.tx = {x \in w.tx : ~(x[1] = t /\ x[2].id = row.id)}
                                            \cup {<<t, row>>},
                                  !.clients = clients]]
                        /\ UNCHANGED store
                   ELSE /\ workers' = [workers EXCEPT ![p] =
                              [Continue(w, todo) EXCEPT !.clients = clients]]
                        /\ store' = Applied(store, {<<t, row>>})
        /\ UNCHANGED <<clientOrder, scores, scorer, job, cache, calls>>

\* The scan order of clients after a commit: new rows at the end, and an
\* updated row either where it was or at the end too.
OrdersAfter(order, tx) ==
    LET ids == {x[2].id : x \in {y \in tx : y[1] = "clients"}}
        old == SelectSeq(order, LAMBDA i : i \notin ids)
        RECURSIVE Asc(_)
        Asc(S) == IF S = {} THEN <<>>
                  ELSE LET lo == CHOOSE i \in S : \A j \in S : i <= j
                       IN  <<lo>> \o Asc(S \ {lo})
    IN  { order \o Asc(ids \ Range(order)), old \o Asc(ids) }

\* the transaction's callback returned: COMMIT, res.json(result)
Commit(p) ==
    /\ workers[p].pc = "commit"
    /\ store' = Applied(store, workers[p].tx)
    /\ clientOrder' \in OrdersAfter(clientOrder, workers[p].tx)
    /\ Ended(p, TRUE, store')
    /\ UNCHANGED <<nextId, scores, scorer, job, cache, calls>>

\* a statement of the transaction throws (connection lost, constraint,
\* deadlock): ROLLBACK, next(error)
Fail(p) ==
    /\ workers[p].pc \in {"findAll", "find", "write", "commit"}
    /\ Ended(p, FALSE, store)
    /\ UNCHANGED <<store, nextId, clientOrder, scores, scorer, job, cache, calls>>

SyncStep(p) ==
    \/ \E route \in Routes : \E batch \in Batches(route) : StartSync(p, route, batch)
    \/ FindAllClients(p)
    \/ Find(p)
    \/ Write(p)
    \/ Commit(p)
    \/ Fail(p)

\* one sync request at a time
NextSeq == SyncStep(1)

SpecSeq == InitSync /\ [][NextSeq]_vars

\* sync requests of two workers interleaved
NextSync == \E p \in Procs : SyncStep(p)

SpecSync == InitSync /\ [][NextSync]_vars

(***************************************************************************)
(* Specification SpecRead: one calculator runs query by query while sync   *)
(* requests run and commit.  Each query is a statement of its own on the   *)
(* db handle: it reads what is committed when it runs.  The scorer keeps   *)
(* the store as it was when the calculation began and the number of runs   *)
(* that had ended by then.                                                 *)
(***************************************************************************)
InitRead ==
    /\ store = [EmptyStore EXCEPT
                  !.clients = {[id |-> 1] @@ Company(1)},
                  !.devices = {[id |-> 1, client_id |-> 1] @@ ImmyDevice(IdBase, "warning")},
                  !.controls = {[id |-> 1, client_id |-> 1, external_id |-> IdBase,
                                 control_type |-> "immy_baseline", status |-> "fail"]}]
    /\ clientOrder = <<1>>
    /\ nextId = [IdleIds EXCEPT !.clients = 2, !.devices = 2, !.controls = 2]
    /\ scores = NoScores
    /\ scorer = NoScorer
    /\ workers = [p \in Procs |-> IdleWorker]
    /\ hist = <<>>
    /\ cache = NoCache
    /\ calls = NoCalls
    /\ job = NoJob

\* calculateStandardsScore(c) (or Risk, or Experience) is called
StartScore(c, calc) ==
    /\ scorer.client = 0
    /\ scores = NoScores
    /\ scorer' = [client |-> c, calc |-> calc, q |-> Q0, pc |-> 1,
                  start |-> store, since |-> Len(hist)]
    /\ UNCHANGED <<store, nextId, clientOrder, scores, workers, hist, job, cache, calls>>

\* the calculator's next awaited query
ReadQuery ==
    /\ scorer.client # 0
    /\ scorer.pc <= Len(PlanOf(scorer.calc))
    /\ LET q == ReadAt(scorer.calc, store, scorer.client, scorer.q, scorer.pc)
       IN  scorer' = [scorer EXCEPT !.q = q,
                                    !.pc = NextPc(scorer.calc, q, scorer.pc)]
    /\ UNCHANGED <<store, nextId, clientOrder, scores, workers, hist, job, cache, calls>>

\* the calculator returns its result
FinishScore ==
    /\ scorer.client # 0
    /\ scorer.pc > Len(PlanOf(scorer.calc))
    /\ scores' = [client |-> scorer.client,
                  results |-> (scorer.calc :> Calculate(scorer.calc, scorer.q))]
    /\ scorer' = [scorer EXCEPT !.client = 0]
    /\ UNCHANGED <<store, nextId, clientOrder, workers, hist, job, cache, calls>>

NextRead ==
    \/ SyncStep(1)
    \/ \E c \in ClientIds : \E calc \in Calcs : StartScore(c, calc)
    \/ ReadQuery
    \/ FinishScore

SpecRead == InitRead /\ [][NextRead]_vars

(***************************************************************************)
(* The narrative generator (src/qbr/narrative-generator.js).  A string is  *)
(* a sequence of tokens, a token being a piece of text the two regular     *)
(* expressions of validateCitations treat as a unit: the openings          *)
(* "[Ticket #" and "[Device: ", the closing "]", a digit, or other text.   *)
(* An external_id and a device name are strings; a row id is a number.     *)
(***************************************************************************)
MaxRecs == 2
MaxEvidence == 1

DigitTokens == <<"0", "1", "2", "3", "4", "5", "6", "7", "8", "9">>

\* Number.prototype.toString(): the decimal digits of a row id
RECURSIVE toString(_)
toString(n) ==
    IF n < 10 THEN <<DigitTokens[n + 1]>>
    ELSE toString(n \div 10) \o <<DigitTokens[(n % 10) + 1]>>

\* citation.match(/\[Ticket #(\d+)\]/) and citation.match(/\[Device: ([^\]]+)\]/):
\* the group of the first place where the opening is followed by one or
\* more digits (characters other than "]") and a "]"; NULL without a match
Match(citation, opening) ==
    LET Inner(ch) == IF opening = "[Ticket #"
                     THEN \E d \in DOMAIN DigitTokens : DigitTokens[d] = ch
                     ELSE ch # "]"
        Ends(i) == {j \in (i + 2)..Len(citation) :
                      /\ citation[j] = "]"
                      /\ \A k \in (i + 1)..(j - 1) : Inner(citation[k])}
        starts == {i \in DOMAIN citation : citation[i] = opening /\ Ends(i) # {}}
    IN  IF starts = {} THEN NULL
        ELSE LET i == CHOOSE s \in starts : \A o \in starts : s <= o
                 j == CHOOSE e \in Ends(i) : TRUE
             IN  Some(SubSeq(citation, i + 1, j - 1))

\* a variant that never throws
validateCitationsLenient(recommendations, input) ==
    [thrown |-> "", warnings |-> {}]

\* a variant that also throws on a citation that does not resolve
validateCitationsStrict(recommendations, input) ==
    [thrown |-> IF \E i \in DOMAIN recommendations :
                      \/ recommendations[i].evidence \in {NULL, Some(<<>>)}
                      \/ \E k \in DOMAIN recommendations[i].evidence[1] :
                           LET t == Match(recommendations[i].evidence[1][k], "[Ticket #")
                           IN  t # NULL /\ \A r \in input.recent_tickets :
                                              r.external_id # t[1]
                THEN "HallucinationDetectedError" ELSE "",
     warnings |-> {}]

\* validateCitations: the error it throws ("" when it returns) and the
\* warnings it logs, as <<recommendation, citation, kind>>.  It stops at the
\* first recommendation whose evidence is missing or empty.
validateCitations(recommendations, input) ==
    LET NoEvidence(rec) == rec.evidence = NULL \/ Len(rec.evidence[1]) = 0
        bad == {i \in DOMAIN recommendations : NoEvidence(recommendations[i])}
        checked == {i \in DOMAIN recommendations : \A b \in bad : i < b}
        ticketExists(ticketId) ==
            \E t \in input.recent_tickets :
                t.external_id = ticketId \/ toString(t.id) = ticketId
        deviceExists(deviceName) ==
            \E d \in input.lifecycle_items : d.name = deviceName
        Warns(citation, kind) ==
            LET m == Match(citation, kind)
            IN  /\ m # NULL
                /\ IF kind = "[Ticket #" THEN ~ticketExists(m[1])
                                         ELSE ~deviceExists(m[1])
    IN  [thrown |-> IF bad = {} THEN "" ELSE "HallucinationDetectedError",
         warnings |-> {w \in UNION {{i} \X (DOMAIN recommendations[i].evidence[1])
                                        \X {"[Ticket #", "[Device: "} : i \in checked} :
                          Warns(recommendations[w[1]].evidence[1][w[2]], w[3])}]

\* What the language model is taken to answer: the citations of a
\* recommendation's evidence, the evidence lists (NULL: no evidence field),
\* the recommendation lists, and the outcome of the four generation calls.
Citations ==
    { <<"[Ticket #", "1", "2", "]">>,
      <<"[Ticket #", "7", "]">>,
      <<"[Ticket #", "0", "7", "]">>,
      <<"[Device: ", "WS-1", "]">>,
      <<"see", "[Device: ", "WS-9", "]">>,
      <<"ticket", "7">> }

Responses ==
    LET Evidences == {NULL} \cup {Some(e) : e \in UNION {[1..n -> Citations] :
                                                           n \in 0..MaxEvidence}}
    IN  {[ok |-> FALSE, recommendations |-> <<>>]}
        \cup {[ok |-> TRUE, recommendations |-> r] :
                r \in UNION {[1..n -> [evidence : Evidences]] : n \in 0..MaxRecs}}

\* generateNarrative's catch: whatever was thrown inside the try leaves as
\* an OpenAIError that keeps the message of the cause as its details
Caught(cause) == [name |-> "OpenAIError", details |-> cause]

(***************************************************************************)
(* Specification SpecJob: one run of the worker's handleQBRGeneration over *)
(* a store with one client, its ticket (id 7, external_id "12") and its    *)
(* device (name "WS-1").  job.steps lists the steps that have completed.   *)
(***************************************************************************)
InitJob ==
    /\ store =
         [EmptyStore EXCEPT
            !.clients = {[id |-> 1] @@ Company(1)},
            !.tickets = {[id |-> 7, client_id |-> 1, external_id |-> <<"1", "2">>]
                           @@ CWTicket},
            !.devices = {[id |-> 1, client_id |-> 1, external_id |-> <<"1">>,
                          name |-> <<"WS-1">>] @@ CWDevice}]
    /\ nextId = IdleIds
    /\ clientOrder = <<1>>
    /\ scores = NoScores
    /\ scorer = NoScorer
    /\ workers = <<>>
    /\ hist = <<>>
    /\ cache = NoCache
    /\ calls = NoCalls
    /\ \E c \in ClientIds :
         job = [status |-> "active", pc |-> "client", client_id |-> c,
                input |-> [recent_tickets |-> {}, lifecycle_items |-> {}],
                response |-> [ok |-> FALSE, recommendations |-> <<>>],
                steps |-> <<>>, thrown |-> "", warnings |-> {},
                error |-> [name |-> "", details |-> ""], pdf |-> "none"]

\* a step completes / the handler's catch rethrows and the queue marks the
\* job failed
Done(step, pc) == [job EXCEPT !.steps = Append(@, step), !.pc = pc]

Failed(j, error) == [j EXCEPT !.status = "failed", !.pc = "end", !.error = error]

\* Step 1: clientModel.findById(client_id)
GetClient ==
    /\ job.pc = "client"
    /\ job' = IF \E r \in store.clients : r.id = job.client_id
              THEN Done("client", "scores")
              ELSE Failed(job, [name |-> "Error", details |-> ""])
    /\ UNCHANGED <<store, nextId, clientOrder, scores, scorer, workers, hist, cache, calls>>

\* Step 2: the three calculators
JobScores ==
    /\ job.pc = "scores"
    /\ scores' = [client |-> job.client_id,
                  results |-> AllScores(store, job.client_id)]
    /\ job' = Done("scores", "gather")
    /\ UNCHANGED <<store, nextId, clientOrder, scorer, workers, hist, cache, calls>>

\* Step 3: the narrative input (slice(0, 20) keeps every ticket of a store
\* with at most 20 of them)
GatherData ==
    /\ job.pc = "gather"
    /\ job' = [Done("gather", "narrative") EXCEPT
                 !.input = [recent_tickets |-> ticketFindByClientId(store, job.client_id),
                            lifecycle_items |-> deviceFindByClientId(store, job.client_id)]]
    /\ UNCHANGED <<store, nextId, clientOrder, scores, scorer, workers, hist, cache, calls>>

\* Step 4, generateNarrative: the four generation calls settle
GenerateNarrative ==
    /\ job.pc = "narrative"
    /\ \E response \in Responses :
         job' = IF response.ok
                THEN [Done("narrative", "validation") EXCEPT !.response = response]
                ELSE Failed(job, Caught("OpenAI API timeout after 3 retries"))
    /\ UNCHANGED <<store, nextId, clientOrder, scores, scorer, workers, hist, cache, calls>>

\* generateNarrative: validateCitations, then the narrative is returned or
\* the catch rethrows
ValidateNarrative ==
    /\ job.pc = "validation"
    /\ LET v == validateCitations(job.response.recommendations, job.input)
           j == [Done("validation", "pdf") EXCEPT !.thrown = v.thrown,
                                                  !.warnings = v.warnings]
       IN  job' = IF v.thrown = "" THEN j
                  ELSE Failed(j, Caught("Recommendation has no evidence citations"))
    /\ UNCHANGED <<store, nextId, clientOrder, scores, scorer, workers, hist, cache, calls>>

\* Step 6: pdfGenerator.generateQBR(pdfData)
GeneratePDF(ok) ==
    /\ job.pc = "pdf"
    /\ job' = IF ok THEN [Done("pdf", "write") EXCEPT !.pdf = "rendered"]
              ELSE Failed(job, [name |-> "Error", details |-> ""])
    /\ UNCHANGED <<store, nextId, clientOrder, scores, scorer, workers, hist, cache, calls>>

\* Step 7: fs.writeFile(pdfPath, pdfBuffer), and the handler returns
SavePDF(ok) ==
    /\ job.pc = "write"
    /\ job' = IF ok THEN [Done("write", "end") EXCEPT !.pdf = "written",
                                                      !.status = "completed"]
              ELSE Failed(job, [name |-> "Error", details |-> ""])
    /\ UNCHANGED <<store, nextId, clientOrder, scores, scorer, workers, hist, cache, calls>>

NextJob ==
    \/ GetClient
    \/ JobScores
    \/ GatherData
    \/ GenerateNarrative
    \/ ValidateNarrative
    \/ \E ok \in BOOLEAN : GeneratePDF(ok)
    \/ \E ok \in BOOLEAN : SavePDF(ok)

SpecJob == InitJob /\ [][NextJob]_vars

(***************************************************************************)
(* Specification SpecCalls: the four generation calls of one               *)
(* generateNarrative invocation, each in its own callOpenAI retry loop.    *)
(* Promise.all starts the four together; its promise is rejected by the    *)
(* first loop that throws and fulfilled when all four have returned.  A    *)
(* loop keeps the delays it has waited and the number of attempts it       *)
(* started after the promise was rejected (late).                          *)
(***************************************************************************)
maxRetries == 3

Generators ==
    {"spotTrends", "writeExecutiveSummary", "synthesizeActions",
     "prepareDiscussionPoints"}

\* a delay that does not grow
BackoffFlat(attempt) == 1000

\* Math.pow(2, attempt - 1) * 1000, in milliseconds
Backoff(attempt) == (2 ^ (attempt - 1)) * 1000

InitCalls ==
    /\ store = EmptyStore
    /\ nextId = IdleIds
    /\ clientOrder = <<>>
    /\ scores = NoScores
    /\ scorer = NoScorer
    /\ workers = <<>>
    /\ hist = <<>>
    /\ job = NoJob
    /\ cache = NoCache
    /\ calls = [promise |-> "pending",
                gen |-> [g \in Generators |->
                           [pc |-> "request", attempt |-> 1, waits |-> <<>>,
                            late |-> 0, error |-> ""]]]

\* this.openai.chat.completions.create(...) settles: the loop returns the
\* content, or its catch waits before the next attempt, or (after the last
\* attempt) the loop ends and callOpenAI throws
Respond(g, ok) ==
    /\ calls # NoCalls
    /\ calls.gen[g].pc = "request"
    /\ LET c == calls.gen[g]
           loop == IF ok THEN [c EXCEPT !.pc = "returned"]
                   ELSE IF c.attempt < maxRetries
                        THEN [c EXCEPT !.pc = "wait",
                                       !.waits = Append(@, Backoff(c.attempt))]
                   ELSE [c EXCEPT !.pc = "thrown",
                                  !.error = "OpenAI API timeout after 3 retries"]
           \* await Promise.all([...]): rejected by the first loop that throws
           settled == IF calls.promise # "pending" THEN calls.promise
                      ELSE IF loop.pc = "thrown" THEN "rejected"
                      ELSE IF \A o \in Generators \ {g} :
                                 calls.gen[o].pc = "returned"
                           THEN "fulfilled" ELSE "pending"
       IN  calls' = [calls EXCEPT !.gen[g] = loop, !.promise = settled]
    /\ UNCHANGED <<store, nextId, clientOrder, scores, scorer, workers, hist,
                   job, cache>>

\* the setTimeout of the backoff fires: attempt++, and the next attempt starts
Timer(g) ==
    /\ calls # NoCalls
    /\ calls.gen[g].pc = "wait"
    /\ calls' = [calls EXCEPT
                   !.gen[g].pc = "request",
                   !.gen[g].attempt = @ + 1,
                   !.gen[g].late = @ + (IF calls.promise = "rejected" THEN 1 ELSE 0)]
    /\ UNCHANGED <<store, nextId, clientOrder, scores, scorer, workers, hist,
                   job, cache>>

NextCalls ==
    \E g \in Generators :
        \/ \E ok \in BOOLEAN : Respond(g, ok)
        \/ Timer(g)

SpecCalls == InitCalls /\ [][NextCalls]_vars

\* every request is answered or times out, and every timer fires
SpecCallsFair == SpecCalls /\ WF_vars(NextCalls)

(***************************************************************************)
(* Specification SpecAdapter: one request to a sync route.  The route      *)
(* calls adapter.sync(credentials); the adapter sends its requests         *)
(* together (Promise.all), each answered by the vendor with a status and,  *)
(* on 200, a payload; the route persists the batch sync returned or hands  *)
(* the error sync threw to the error handler.  A credentials value is      *)
(* whether it is an object and which fields are truthy; a text is the      *)
(* sequence of its characters.                                             *)
(***************************************************************************)
RequiredFields(adapter) ==
    CASE adapter = "connectwise" ->
           {"companyId", "publicKey", "privateKey", "clientId", "baseUrl"}
      [] adapter = "immy" -> {"apiKey", "baseUrl"}
      [] adapter = "m365" -> {"tenantId", "clientId", "clientSecret"}

AdapterError(message, statusCode) ==
    [name |-> "AdapterError", message |-> message, statusCode |-> statusCode]

NoError == [name |-> "", message |-> "", statusCode |-> 0]

validateCredentials(credentials, requiredFields) ==
    IF ~credentials.object
    THEN AdapterError("Invalid credentials", 400)
    ELSE IF requiredFields \ credentials.fields # {}
    THEN AdapterError("Missing required credentials", 400)
    ELSE NoError

\* the this.client.get(url) calls that sync starts
Fetches(adapter) ==
    CASE adapter = "connectwise" ->
           {"/company/companies", "/finance/agreements", "/service/tickets",
            "/company/configurations"}
      [] adapter = "immy" -> {"/computers", "/baselines", "/compliance/reports"}
      [] adapter = "m365" -> {}

\* the endpoint a fetch function of the Immy adapter tries in its catch
Alternative(url) ==
    CASE url = "/computers" -> "/devices"
      [] url = "/compliance/reports" -> "/drift-reports"
      [] OTHER -> ""

DeviceFetches == {"/company/configurations", "/computers"}

Statuses == {200, 401, 403, 429, 500}

UpperCase ==
    <<"A", "B", "C", "D", "E", "F", "G", "H", "I", "J", "K", "L", "M",
      "N", "O", "P", "Q", "R", "S", "T", "U", "V", "W", "X", "Y", "Z">>

LowerCase ==
    <<"a", "b", "c", "d", "e", "f", "g", "h", "i", "j", "k", "l", "m",
      "n", "o", "p", "q", "r", "s", "t", "u", "v", "w", "x", "y", "z">>

toLowerCase(text) ==
    [i \in DOMAIN text |->
       IF \E k \in DOMAIN UpperCase : UpperCase[k] = text[i]
       THEN LowerCase[CHOOSE k \in DOMAIN UpperCase : UpperCase[k] = text[i]]
       ELSE text[i]]

includes(text, part) ==
    \E i \in 0..(Len(text) - Len(part)) :
        SubSeq(text, i + 1, i + Len(part)) = part

mapImmyHealthStatus(immyStatus) ==
    IF immyStatus = <<>> THEN "unknown"
    ELSE LET lower == toLowerCase(immyStatus)
         IN  IF \/ includes(lower, <<"h","e","a","l","t","h","y">>)
                \/ includes(lower, <<"c","o","m","p","l","i","a","n","t">>)
                \/ includes(lower, <<"p","a","s","s">>)
             THEN "healthy"
             ELSE IF \/ includes(lower, <<"w","a","r","n","i","n","g">>)
                     \/ includes(lower, <<"d","r","i","f","t">>)
             THEN "warning"
             ELSE IF \/ includes(lower, <<"c","r","i","t","i","c","a","l">>)
                     \/ includes(lower, <<"f","a","i","l">>)
                     \/ includes(lower, <<"n","o","n","-","c","o","m","p","l","i","a","n","t">>)
             THEN "critical"
             ELSE "healthy"

\* normalizeDevice of the two adapters that return devices
normalizeDevice(adapter, record) ==
    [external_id |-> record.id, managed |-> TRUE,
     health_status |-> IF adapter = "connectwise" THEN "healthy"
                       ELSE mapImmyHealthStatus(record.status)]

\* the status texts of the vendor's device records; <<>> is no status
VendorStatuses ==
    { <<>>,
      <<"H","e","a","l","t","h","y">>,
      <<"O","f","f","l","i","n","e">>,
      <<"D","r","i","f","t">>,
      <<"N","o","n","-","C","o","m","p","l","i","a","n","t">> }

\* the payloads of a 200 answer
Payloads(url) ==
    IF url \in DeviceFetches \cup {"/devices"}
    THEN {<<>>} \cup {<<[id |-> 1, status |-> s]>> : s \in VendorStatuses}
    ELSE {<<>>, <<[id |-> 1]>>}

Credentials(adapter) ==
    {[object |-> FALSE, fields |-> {}]}
        \cup {[object |-> TRUE, fields |-> f] : f \in SUBSET RequiredFields(adapter)}

\* the normalized batch of a sync whose fetches have all returned
Normalized(adapter, data) ==
    CASE adapter = "connectwise" ->
           [clients |-> data["/company/companies"],
            agreements |-> data["/finance/agreements"],
            tickets |-> data["/service/tickets"],
            devices |-> [i \in DOMAIN data["/company/configurations"] |->
                           normalizeDevice(adapter, data["/company/configurations"][i])],
            controls |-> <<>>, users |-> <<>>, risks |-> <<>>]
      [] adapter = "immy" ->
           [clients |-> <<>>, agreements |-> <<>>, tickets |-> <<>>,
            devices |-> [i \in DOMAIN data["/computers"] |->
                           normalizeDevice(adapter, data["/computers"][i])],
            controls |-> data["/compliance/reports"],
            users |-> <<>>, risks |-> <<>>]

\* the catch of sync: what it throws for the error of a fetch
Thrown(adapter, status) ==
    IF adapter = "connectwise"
    THEN IF status = 401
         THEN AdapterError("ConnectWise authentication failed", 401)
         ELSE IF status = 429
         THEN AdapterError("ConnectWise rate limit exceeded", 429)
         ELSE AdapterError("ConnectWise API error", status)
    ELSE IF status \in {401, 403}
         THEN AdapterError("Immy.Bot authentication failed", 401)
         ELSE AdapterError("Immy.Bot API error", status)

InitAdapter ==
    /\ store = EmptyStore
    /\ nextId = IdleIds
    /\ clientOrder = <<>>
    /\ scores = NoScores
    /\ scorer = NoScorer
    /\ workers = <<>>
    /\ hist = <<>>
    /\ job = NoJob
    /\ cache = NoCache
    /\ \E adapter \in Routes :
       \E credentials \in Credentials(adapter) :
          calls = [adapter |-> adapter, credentials |-> credentials,
                   pc |-> "sync", fetch |-> <<>>, requests |-> <<>>,
                   batch |-> EmptyBatch, error |-> NoError,
                   written |-> FALSE, response |-> 0]

\* adapter.sync(credentials) up to its await
Sync ==
    /\ calls # NoCalls
    /\ calls.pc = "sync"
    /\ LET a == calls.adapter
           invalid == validateCredentials(calls.credentials, RequiredFields(a))
       IN  calls' =
             IF a = "m365"
             THEN [calls EXCEPT !.pc = "returned"]
             ELSE IF invalid # NoError
             THEN [calls EXCEPT !.pc = "thrown", !.error = invalid]
             ELSE [calls EXCEPT
                     !.pc = "fetching",
                     !.fetch = [f \in Fetches(a) |->
                                  [url |-> f, pc |-> "sent", data |-> <<>>]],
                     !.requests = [u \in (Fetches(a) \cup
                                          {Alternative(f) : f \in Fetches(a)}) \ {""}
                                   |-> <<>>]]
    /\ UNCHANGED <<store, nextId, clientOrder, scores, scorer, workers, hist,
                   job, cache>>

\* the vendor answers the request of fetch function f; the function
\* returns, tries its alternative endpoint or throws, and sync goes on when
\* Promise.all settles
Reply(f, status, payload) ==
    /\ calls # NoCalls
    /\ calls.pc \in {"fetching", "returned", "thrown"}
    /\ f \in DOMAIN calls.fetch
    /\ calls.fetch[f].pc = "sent"
    /\ payload \in Payloads(calls.fetch[f].url)
    /\ LET a == calls.adapter
           url == calls.fetch[f].url
           \* fetchBaselines and the second catch of fetchComplianceReports
           \* return []
           swallowing == a = "immy" /\ url \in {"/baselines", "/drift-reports"}
           retrying == a = "immy" /\ Alternative(url) # ""
           after ==
               IF status = 200
               THEN [url |-> url, pc |-> "fulfilled", data |-> payload]
               ELSE IF retrying
               THEN [url |-> Alternative(url), pc |-> "sent", data |-> <<>>]
               ELSE IF swallowing
               THEN [url |-> url, pc |-> "fulfilled", data |-> <<>>]
               ELSE [url |-> url, pc |-> "rejected", data |-> <<>>]
           fetch == [calls.fetch EXCEPT ![f] = after]
           logged == [calls EXCEPT !.fetch = fetch,
                                   !.requests[url] = Append(@, status)]
       IN  calls' =
             IF calls.pc # "fetching" THEN logged
             ELSE IF after.pc = "rejected"
             THEN [logged EXCEPT !.pc = "thrown", !.error = Thrown(a, status)]
             ELSE IF \A g \in DOMAIN fetch : fetch[g].pc = "fulfilled"
             THEN [logged EXCEPT
                     !.pc = "returned",
                     !.batch = Normalized(a, [g \in DOMAIN fetch |-> fetch[g].data])]
             ELSE logged
    /\ UNCHANGED <<store, nextId, clientOrder, scores, scorer, workers, hist,
                   job, cache>>

\* the route after await adapter.sync(credentials): the transaction that
\* persists the batch, or next(error) and the error handler's status
Persist ==
    /\ calls # NoCalls
    /\ calls.pc \in {"returned", "thrown"}
    /\ calls' = IF calls.pc = "returned"
                THEN [calls EXCEPT !.pc = "responded", !.written = TRUE,
                                   !.response = 200]
                ELSE [calls EXCEPT !.pc = "responded",
                                   !.response = calls.error.statusCode]
    /\ UNCHANGED <<store, nextId, clientOrder, scores, scorer, workers, hist,
                   job, cache>>

NextAdapter ==
    \/ Sync
    \/ \E f \in DeviceFetches \cup {"/company/companies", "/finance/agreements",
                                    "/service/tickets", "/baselines",
                                    "/compliance/reports"} :
       \E status \in Statuses :
       \E payload \in Payloads("/devices") \cup Payloads("") :
           Reply(f, status, payload)
    \/ Persist

SpecAdapter == InitAdapter /\ [][NextAdapter]_vars

(***************************************************************************)
(* Specification SpecStatus: the QBR jobs of the queue and the endpoint    *)
(* that reports them.  POST /clients/:id/qbr/generate sends a job; the     *)
(* worker takes it and runs the handler, which returns its result or       *)
(* throws; the queue keeps the job's state and output, runs a failed job   *)
(* again while it has retries left, and expires a job whose handler did    *)
(* not finish in time.  GET /clients/:id/qbr/:jobId reads the job and      *)
(* answers.  clients maps a job to its client.                             *)
(***************************************************************************)
MaxJobRetries == 1

JobIds == {"abc-123", "def-456"}

NoOutput == <<>>

NoQueueJob == [state |-> "", output |-> NoOutput, retrycount |-> 0]

\* the response of GET /clients/:id/qbr/:jobId for boss.getJobById's answer
GetJobStatus(queueJob) ==
    IF queueJob = NoQueueJob
    THEN [http |-> 404, status |-> "", pdf_url |-> "", error |-> ""]
    ELSE LET status == IF queueJob.state \in {"created", "retry"} THEN "queued"
                       ELSE IF queueJob.state = "active" THEN "active"
                       ELSE IF queueJob.state = "completed" THEN "completed"
                       ELSE IF queueJob.state = "failed" THEN "failed"
                       ELSE "unknown"
         IN  [http |-> 200, status |-> status,
              pdf_url |-> IF status = "completed" /\ queueJob.output # NoOutput
                          THEN queueJob.output.pdf_url ELSE "",
              error |-> IF status = "failed" /\ queueJob.output # NoOutput
                        THEN queueJob.output.error ELSE ""]

InitStatus ==
    /\ store = EmptyStore
    /\ nextId = IdleIds
    /\ clientOrder = <<>>
    /\ scores = NoScores
    /\ scorer = NoScorer
    /\ workers = <<>>
    /\ hist = <<>>
    /\ job = NoJob
    /\ cache = NoCache
    /\ calls = [queue |-> [id \in JobIds |-> NoQueueJob],
                polled |-> "", response |-> GetJobStatus(NoQueueJob)]

\* boss.send('qbr-generation', {...})
Generate(id) ==
    /\ calls # NoCalls
    /\ calls.queue[id] = NoQueueJob
    /\ calls' = [calls EXCEPT !.queue[id].state = "created"]
    /\ UNCHANGED <<store, nextId, clientOrder, scores, scorer, workers, hist,
                   job, cache>>

\* the worker takes the job and calls handleQBRGeneration(job)
Start(id) ==
    /\ calls # NoCalls
    /\ calls.queue[id].state \in {"created", "retry"}
    /\ calls' = [calls EXCEPT !.queue[id].state = "active"]
    /\ UNCHANGED <<store, nextId, clientOrder, scores, scorer, workers, hist,
                   job, cache>>

\* handleQBRGeneration returns its result, or throws and the queue fails
\* the job or schedules it again
Finish(id, ok) ==
    /\ calls # NoCalls
    /\ calls.queue[id].state = "active"
    /\ \E again \in BOOLEAN :
          /\ again => (~ok /\ calls.queue[id].retrycount < MaxJobRetries)
          /\ calls' = [calls EXCEPT !.queue[id] =
                IF ok
                THEN [@ EXCEPT !.state = "completed",
                               !.output = [pdf_url |-> "/outputs/qbr.pdf",
                                           error |-> ""]]
                ELSE IF again
                THEN [@ EXCEPT !.state = "retry", !.retrycount = @ + 1,
                               !.output = [pdf_url |-> "", error |-> "Error"]]
                ELSE [@ EXCEPT !.state = "failed",
                               !.output = [pdf_url |-> "", error |-> "Error"]]]
    /\ UNCHANGED <<store, nextId, clientOrder, scores, scorer, workers, hist,
                   job, cache>>

\* the handler did not settle within the job's expiration (the worker
\* process ended, or the run took longer): the queue expires the job
Expire(id) ==
    /\ calls # NoCalls
    /\ calls.queue[id].state = "active"
    /\ calls' = [calls EXCEPT !.queue[id].state = "expired"]
    /\ UNCHANGED <<store, nextId, clientOrder, scores, scorer, workers, hist,
                   job, cache>>

\* GET /clients/:id/qbr/:jobId
Poll(id) ==
    /\ calls # NoCalls
    /\ calls' = [calls EXCEPT !.polled = id,
                              !.response = GetJobStatus(calls.queue[id])]
    /\ UNCHANGED <<store, nextId, clientOrder, scores, scorer, workers, hist,
                   job, cache>>

NextStatus ==
    \E id \in JobIds :
        \/ Generate(id)
        \/ Start(id)
        \/ \E ok \in BOOLEAN : Finish(id, ok)
        \/ Expire(id)
        \/ Poll(id)

SpecStatus == InitStatus /\ [][NextStatus]_vars

(***************************************************************************)
(* Specification SpecCache: sync requests, one after the other, and        *)
(* requests to GET /clients/:id/scores, which answers from the cache       *)
(* while the entry of the client has not expired and otherwise computes    *)
(* the three scores from the store and caches them.  cache holds the       *)
(* entries and the clock (Date.now(), in milliseconds from the start).     *)
(***************************************************************************)
CacheTTL == 300000

ClockStep == 200000

MaxClock == 400000

InitCache ==
    /\ store = [EmptyStore EXCEPT !.clients = {[id |-> 1] @@ Company(1)}]
    /\ clientOrder = <<1>>
    /\ nextId = [IdleIds EXCEPT !.clients = 2]
    /\ scores = NoScores
    /\ scorer = NoScorer
    /\ workers = [p \in Procs |-> IdleWorker]
    /\ hist = <<>>
    /\ cache = [now |-> 0, items |-> <<>>]
    /\ calls = NoCalls
    /\ job = NoJob

\* router.get('/:id/scores'): cache.get(cacheKey); on a miss Promise.all of
\* the three calculators and cache.set(cacheKey, result, 300000)
GetScores(c) ==
    /\ cache # NoCache
    /\ LET hit == /\ c \in DOMAIN cache.items
                  /\ ~(cache.now > cache.items[c].expiresAt)
           result == AllScores(store, c)
       IN  IF hit
           THEN /\ scores' = [client |-> c, results |-> cache.items[c].value]
                /\ cache' = cache
           ELSE /\ scores' = [client |-> c, results |-> result]
                /\ cache' = [cache EXCEPT !.items =
                       [k \in DOMAIN cache.items \cup {c} |->
                          IF k = c
                          THEN [value |-> result,
                                expiresAt |-> cache.now + CacheTTL]
                          ELSE cache.items[k]]]
    /\ UNCHANGED <<store, nextId, clientOrder, scorer, workers, hist, job, calls>>

\* time passes
Tick ==
    /\ cache # NoCache
    /\ cache.now + ClockStep <= MaxClock
    /\ cache' = [cache EXCEPT !.now = @ + ClockStep]
    /\ UNCHANGED <<store, nextId, clientOrder, scores, scorer, workers, hist,
                   job, calls>>

NextCache ==
    \/ SyncStep(1)
    \/ \E c \in ClientIds : GetScores(c)
    \/ Tick

SpecCache == InitCache /\ [][NextCache]_vars

(***************************************************************************)
(* Specification SpecTrend: calculateTicketsPerUserTrend over the answers  *)
(* of its three queries: the tickets of the current quarter, those of the  *)
(* previous quarter, and the users of the client.                          *)
(***************************************************************************)
MaxQuarterTickets == 11

MaxTrendUsers == 2

InitTrend ==
    /\ store = EmptyStore
    /\ nextId = IdleIds
    /\ clientOrder = <<>>
    /\ scores = NoScores
    /\ scorer = NoScorer
    /\ workers = <<>>
    /\ hist = <<>>
    /\ job = NoJob
    /\ cache = NoCache
    /\ \E cur \in 0..MaxQuarterTickets, prev \in 0..MaxQuarterTickets,
          users \in 0..MaxTrendUsers :
          calls = [q |-> [Q0 EXCEPT !["t_cur"] = cur, !["t_prev"] = prev,
                                    !["t_users"] = users],
                   pc |-> "call", trend |-> <<>>]

\* calculateTicketsPerUserTrend(clientId) after its queries
TicketsPerUserTrend ==
    /\ calls # NoCalls
    /\ calls.pc = "call"
    /\ calls' = [calls EXCEPT !.pc = "returned",
                              !.trend = calculateTicketsPerUserTrend(calls.q)]
    /\ UNCHANGED <<store, nextId, clientOrder, scores, scorer, workers, hist,
                   job, cache>>

NextTrend == TicketsPerUserTrend

SpecTrend == InitTrend /\ [][NextTrend]_vars

(***************************************************************************)
(* The Standards scenario of the architecture document: the answers of the *)
(* Standards queries for one client with ScenarioDevices devices, and the  *)
(* counts ScenarioSpread around the scenario's.  All controls are passing  *)
(* or failing; ScenarioSecureControls of them are of type                  *)
(* m365_secure_score.  `calls` holds the answers and the returned score.   *)
(***************************************************************************)
ScenarioDevices == 50
ScenarioManaged == 45
ScenarioPassing == 40
ScenarioHealthy == 42
ScenarioControls == 50
ScenarioSecureControls == 25
ScenarioSecurePassed == 18
ScenarioSpread == 2

Around(n, most) == { k \in (n - ScenarioSpread)..(n + ScenarioSpread) : k <= most }

ScenarioAnswers(managed, healthy, passing) ==
    [Q0 EXCEPT !["s_total"] = ScenarioDevices, !["s_managed"] = managed,
               !["i_pass"] = passing, !["i_fail"] = ScenarioControls - passing,
               !["i_pass2"] = passing,
               !["p_total"] = ScenarioDevices, !["p_healthy"] = healthy,
               !["e_total"] = ScenarioDevices, !["e_managed"] = managed,
               !["m_total"] = ScenarioSecureControls,
               !["m_passed"] = ScenarioSecurePassed]

InitScenario ==
    /\ store = EmptyStore
    /\ nextId = IdleIds
    /\ clientOrder = <<>>
    /\ scores = NoScores
    /\ scorer = NoScorer
    /\ workers = <<>>
    /\ hist = <<>>
    /\ job = NoJob
    /\ cache = NoCache
    /\ \E managed \in Around(ScenarioManaged, ScenarioDevices),
          healthy \in Around(ScenarioHealthy, ScenarioDevices),
          passing \in Around(ScenarioPassing, ScenarioControls) :
          calls = [q |-> ScenarioAnswers(managed, healthy, passing),
                   pc |-> "call", standards |-> <<>>]

\* calculateStandardsScore(clientId) after its queries
StandardsScore ==
    /\ calls # NoCalls
    /\ calls.pc = "call"
    /\ calls' = [calls EXCEPT !.pc = "returned",
                              !.standards = calculateStandardsScore(calls.q)]
    /\ UNCHANGED <<store, nextId, clientOrder, scores, scorer, workers, hist,
                   job, cache>>

NextScenario == StandardsScore

SpecScenario == InitScenario /\ [][NextScenario]_vars

(***************************************************************************)
(* The status mappings of the Immy adapter, applied to the status of one   *)
(* vendor record.  A status is a JavaScript value: undefined, a boolean or *)
(* a string; a string is one or two of StatusWords, separated by a space.  *)
(* `calls` holds the status and what normalizeControl and normalizeDevice  *)
(* make of it.                                                             *)
(***************************************************************************)
StatusWords ==
    { <<"H", "e", "a", "l", "t", "h", "y">>,
      <<"C", "o", "m", "p", "l", "i", "a", "n", "t">>,
      <<"N", "o", "n", "-", "C", "o", "m", "p", "l", "i", "a", "n", "t">>,
      <<"n", "o", "n", "-", "c", "o", "m", "p", "l", "i", "a", "n", "t">>,
      <<"P", "a", "s", "s">>,
      <<"F", "a", "i", "l">>,
      <<"f", "a", "i", "l", "e", "d">>,
      <<"W", "a", "r", "n", "i", "n", "g">>,
      <<"D", "r", "i", "f", "t">>,
      <<"C", "r", "i", "t", "i", "c", "a", "l">>,
      <<"O", "f", "f", "l", "i", "n", "e">> }

StatusTexts ==
    {<<>>} \cup StatusWords
        \cup {a \o <<" ">> \o b : a \in StatusWords, b \in StatusWords}

StatusValues ==
    {[type |-> "undefined"]}
        \cup {[type |-> "boolean", flag |-> b] : b \in BOOLEAN}
        \cup {[type |-> "string", text |-> text] : text \in StatusTexts}

\* !status
Falsy(status) ==
    \/ status.type = "undefined"
    \/ status.type = "boolean" /\ ~status.flag
    \/ status.type = "string" /\ status.text = <<>>

mapComplianceStatus(status) ==
    IF status.type = "boolean"
    THEN IF status.flag THEN "pass" ELSE "fail"
    ELSE IF Falsy(status) THEN "unknown"
    ELSE LET lower == toLowerCase(status.text)
         IN  IF \/ includes(lower, <<"p", "a", "s", "s">>)
                \/ includes(lower, <<"c", "o", "m", "p", "l", "i", "a", "n", "t">>)
             THEN "pass"
             ELSE IF \/ includes(lower, <<"f", "a", "i", "l">>)
                     \/ includes(lower, <<"n", "o", "n", "-", "c", "o", "m", "p", "l", "i", "a", "n", "t">>)
             THEN "fail"
             ELSE "unknown"

\* mapImmyHealthStatus(computer.status || computer.health) of a value of
\* any type: true has no toLowerCase
HealthOf(status) ==
    IF Falsy(status) THEN mapImmyHealthStatus(<<>>)
    ELSE IF status.type = "boolean" THEN "TypeError"
    ELSE mapImmyHealthStatus(status.text)

InitMap ==
    /\ store = EmptyStore
    /\ nextId = IdleIds
    /\ clientOrder = <<>>
    /\ scores = NoScores
    /\ scorer = NoScorer
    /\ workers = <<>>
    /\ hist = <<>>
    /\ job = NoJob
    /\ cache = NoCache
    /\ \E status \in StatusValues :
          calls = [status |-> status, pc |-> "call", control |-> "", health |-> ""]

\* normalizeControl(report) and normalizeDevice(computer) of records of
\* this status
NormalizeStatus ==
    /\ calls # NoCalls
    /\ calls.pc = "call"
    /\ calls' = [calls EXCEPT !.pc = "returned",
                              !.control = mapComplianceStatus(calls.status),
                              !.health = HealthOf(calls.status)]
    /\ UNCHANGED <<store, nextId, clientOrder, scores, scorer, workers, hist,
                   job, cache>>

NextMap == NormalizeStatus

SpecMap == InitMap /\ [][NextMap]_vars

(***************************************************************************)
(* C1.  For a client with no devices calculateStandardsScore returns score *)
(* null, an empty breakdown and the error 'Insufficient data: no devices   *)
(* found', whatever other rows the client has, and runs none of the        *)
(* components' queries.                                                    *)
(***************************************************************************)
InsufficientData ==
    [score |-> NULL, error |-> "Insufficient data: no devices found",
     breakdown |-> <<>>]

NoComponentQueried(db, c) ==
    LET q == ReadAt("standards", db, c, ReadAt("standards", db, c, Q0, 1), 2)
    IN  NextPc("standards", q, 2) > Len(StandardsPlan)

C1_ZeroDevicesShortCircuit ==
    \A c \in ClientIds :
        (scores.client = c /\ deviceCountByClientId(store, c) = 0)
            => /\ scores.results["standards"] = InsufficientData
               /\ NoComponentQueried(store, c)

\* reached: scores computed for a client with no devices that has controls
C1_Witness ==
    /\ scores.client = 1
    /\ deviceCountByClientId(store, 1) = 0
    /\ \E r \in store.controls : r.client_id = 1
    /\ scores.results["standards"].score = NULL

(***************************************************************************)
(* C2.  Every numeric score equals round(sum of component.score x weight)  *)
(* over the components of its breakdown, and the calculator's weights sum  *)
(* to 1.00.                                                                *)
(***************************************************************************)
WeightsOf(calc) ==
    CASE calc = "standards"  -> StandardsWeights
      [] calc = "risk"       -> RiskWeights
      [] calc = "experience" -> ExperienceWeights

BreakdownKeys(calc) ==
    CASE calc = "standards"  -> <<"device_coverage", "immy_compliance",
                                  "patch_compliance", "edr_health",
                                  "m365_secure_score">>
      [] calc = "risk"       -> <<"identity_risk", "email_risk", "endpoint_risk",
                                  "business_modifier">>
      [] calc = "experience" -> <<"tickets_per_user_trend", "repeat_issue_rate",
                                  "sla_performance", "reopen_rate",
                                  "after_hours_incidents">>

ExactRoundedSum(calc, breakdown) ==
    MathRound(WeightedTotal([i \in DOMAIN BreakdownKeys(calc) |->
                                breakdown[BreakdownKeys(calc)[i]]],
                            WeightsOf(calc)))

C2_ScoreIsRoundedWeightedSum ==
    \A calc \in Calcs :
        /\ SumSeq([i \in DOMAIN WeightsOf(calc) |->
                      Frac(WeightsOf(calc)[i], 100)]) = Int2R(1)
        /\ (scores.client # 0 /\ scores.results[calc].score # NULL)
              => scores.results[calc].score =
                    Some(ExactRoundedSum(calc, scores.results[calc].breakdown))

(***************************************************************************)
(* C7.  A write that leaves every row of client A as it was (an insert,    *)
(* update or delete of another client's device, user, ticket, control or   *)
(* risk) leaves the three results computed for A as they were.             *)
(***************************************************************************)
RowsOfClient(db, a) ==
    [t \in Tables \ {"clients"} |-> {r \in db[t] : r.client_id = a}]

C7_NoCrossClientLeakage ==
    [][\A a \in ClientIds :
          RowsOfClient(store', a) = RowsOfClient(store, a)
              => AllScores(store', a) = AllScores(store, a)]_vars

\* reached: a row of client 2 was updated while client 1 has rows of its own
C7_Witness ==
    /\ hist # <<>>
    /\ hist[1].client = 2
    /\ hist[1].op = "update"
    /\ RowsOfClient(store, 1) = RowsOfClient(OtherRows(1), 1)

(***************************************************************************)
(* C3.  A sync run twice in sequence with the same batch: the second run   *)
(* leaves exactly the rows the first left (it inserts nothing, it updates  *)
(* in place), and the three scores of every client are the same after the *)
(* second run as after the first.                                          *)
(***************************************************************************)
C3_SyncIdempotent ==
    \A i \in 1..(Len(hist) - 1) :
        (/\ hist[i].ok /\ hist[i + 1].ok
         /\ hist[i + 1].route = hist[i].route
         /\ hist[i + 1].batch = hist[i].batch)
            => /\ hist[i + 1].after = hist[i].after
               /\ \A c \in ClientIds :
                     AllScores(hist[i + 1].after, c) = AllScores(hist[i].after, c)

\* reached: two committed runs of the same route with the same batch, the
\* first of which inserted rows and the second of which wrote rows too
C3_Witness ==
    /\ Len(hist) = 2
    /\ hist[1].ok /\ hist[2].ok
    /\ hist[2].route = hist[1].route /\ hist[2].batch = hist[1].batch
    /\ hist[1].after # hist[1].before
    /\ hist[2].writes > 0

(***************************************************************************)
(* C4.  Concurrent syncs never leave two rows with the same upsert key:    *)
(* (external_id, client_id), for clients (external_id, source).            *)
(***************************************************************************)
C4_OneRowPerKey ==
    \A t \in Tables : \A r1, r2 \in store[t] :
        Matches({r1}, t, r2) # {} => r1 = r2

(***************************************************************************)
(* C5.  A sync request that fails leaves every table as it was before the  *)
(* request: none of its transaction's writes is kept.                      *)
(***************************************************************************)
C5_FailedSyncWritesNothing ==
    \A i \in 1..Len(hist) : ~hist[i].ok => hist[i].after = hist[i].before

\* reached: a run that failed after its transaction had written rows
C5_Witness ==
    \E i \in 1..Len(hist) : ~hist[i].ok /\ hist[i].writes > 0

(***************************************************************************)
(* C6.  A calculator's result is the score of one single snapshot of the   *)
(* store: of the store as it was when the calculation began, or as a       *)
(* commit during the calculation left it.                                  *)
(***************************************************************************)
C6_ScoreOfOneSnapshot ==
    scores.client # 0 =>
        \E snapshot \in {scorer.start}
                          \cup {hist[i].after : i \in (scorer.since + 1)..Len(hist)} :
            scores.results[scorer.calc] = ScoreOn(scorer.calc, snapshot, scores.client)

(***************************************************************************)
(* C8.  validateCitations throws, and then a HallucinationDetectedError,   *)
(* exactly when some recommendation has a missing or an empty evidence     *)
(* list.  A citation "[Ticket #N]" with N the external_id or the id of a   *)
(* ticket of the input draws no warning, and a citation of a ticket or a   *)
(* device the input does not hold draws a warning and no error.            *)
(***************************************************************************)
EmptyEvidence(recommendations) ==
    \E i \in DOMAIN recommendations :
        recommendations[i].evidence \in {NULL, Some(<<>>)}

Validated == \E s \in DOMAIN job.steps : job.steps[s] = "validation"

Cites(citation) ==
    \E i \in DOMAIN job.response.recommendations :
        /\ job.response.recommendations[i].evidence # NULL
        /\ \E k \in DOMAIN job.response.recommendations[i].evidence[1] :
              job.response.recommendations[i].evidence[1][k] = citation

TicketCitation(ticketId) == <<"[Ticket #">> \o ticketId \o <<"]">>

C9_HallucinationErrorReachesCaller ==
    (Validated /\ EmptyEvidence(job.response.recommendations)) =>
        /\ job.error.name = "HallucinationDetectedError"
        /\ job.pc = "end"
        /\ job.pdf = "none"

(***************************************************************************)
(* C10.  The steps of a report job complete in the order scores, narrative *)
(* generation, citation validation, PDF render, file write; a PDF is       *)
(* rendered or written only after a validation that threw nothing, and a   *)
(* run whose recommendations include one without evidence renders and      *)
(* writes no PDF and ends failed.                                          *)
(***************************************************************************)
StepOrder ==
    <<"client", "scores", "gather", "narrative", "validation", "pdf", "write">>

C10_PDFOnlyAfterValidation ==
    /\ job.steps = SubSeq(StepOrder, 1, Len(job.steps))
    /\ job.pdf # "none" => (Validated /\ job.thrown = "")
    /\ job.status = "completed" => job.pdf = "written"
    /\ (Validated /\ EmptyEvidence(job.response.recommendations)) =>
          /\ job.status = "failed"
          /\ job.pdf = "none"
          /\ job.steps = SubSeq(StepOrder, 1, 5)

C10_Witness ==
    /\ Validated
    /\ EmptyEvidence(job.response.recommendations)
    /\ Cites(<<"[Ticket #", "1", "2", "]">>)
    /\ job.status = "failed"

(***************************************************************************)
(* C11.  callOpenAI makes at most maxRetries (3) attempts, waits 1000 ms   *)
(* and then 2000 ms between consecutive failed attempts, makes no attempt  *)
(* after one that succeeded, throws 'OpenAI API timeout after 3 retries'   *)
(* after the third failed attempt without another wait, and ends.          *)
(***************************************************************************)
CallEnded(g) == calls.gen[g].pc \in {"returned", "thrown"}

CallInBounds(g) ==
    LET c == calls.gen[g]
    IN  /\ c.attempt \in 1..3
        /\ c.waits = SubSeq(<<1000, 2000>>, 1, Len(c.waits))
        /\ Len(c.waits) = IF c.pc = "wait" THEN c.attempt ELSE c.attempt - 1
        /\ c.pc = "thrown" <=> c.error = "OpenAI API timeout after 3 retries"
        /\ c.pc = "thrown" => (c.attempt = 3 /\ c.waits = <<1000, 2000>>)

C12_NoAttemptAfterRejection ==
    \A g \in Generators : calls.gen[g].late = 0

(***************************************************************************)
(* C13.  For each of the three adapters, sync(credentials) with            *)
(* credentials that are not an object or lack a required field fails with  *)
(* an AdapterError of status 400, before any request is sent to the vendor *)
(* and before the route writes anything.                                   *)
(***************************************************************************)
ValidCredentials ==
    /\ calls.credentials.object
    /\ RequiredFields(calls.adapter) \subseteq calls.credentials.fields

C13_InvalidCredentialsRejected ==
    (calls.pc # "sync" /\ ~ValidCredentials)
        => /\ calls.error.name = "AdapterError"
           /\ calls.error.statusCode = 400
           /\ calls.fetch = <<>>
           /\ ~calls.written

(***************************************************************************)
(* C14.  When a request of a sync was answered 401 (and no request failed  *)
(* otherwise), the sync has thrown an AdapterError of status 401, has      *)
(* returned no batch, and the route has written nothing.                   *)
(***************************************************************************)
Answered(status) ==
    \E u \in DOMAIN calls.requests :
        \E i \in DOMAIN calls.requests[u] : calls.requests[u][i] = status

C14_AuthFailureNoPartialData ==
    (/\ calls.pc = "responded"
     /\ Answered(401)
     /\ \A status \in Statuses \ {200, 401} : ~Answered(status))
        => /\ calls.error.statusCode = 401
           /\ calls.batch = EmptyBatch
           /\ ~calls.written

(***************************************************************************)
(* C15.  A sync surfaces a rate-limit error (status 429) only after a      *)
(* request was answered 429 on each of three attempts.                     *)
(***************************************************************************)
C15_RateLimitRetried ==
    calls.error.statusCode = 429
        => \E u \in DOMAIN calls.requests :
              /\ Len(calls.requests[u]) = 3
              /\ \A i \in 1..3 : calls.requests[u][i] = 429

(***************************************************************************)
(* C18.  In the batch a sync returns, a device whose vendor record has no  *)
(* status, or a status the adapter does not know, has health_status        *)
(* 'unknown'; 'healthy' comes only from a record that reports health.      *)
(***************************************************************************)
VendorRecords ==
    IF calls.adapter = "connectwise"
    THEN calls.fetch["/company/configurations"].data
    ELSE calls.fetch["/computers"].data

C18_NeverDefaultsToHealthy ==
    (calls.pc = "returned" /\ calls.adapter # "m365")
        => \A i \in DOMAIN calls.batch.devices :
              LET reported == toLowerCase(VendorRecords[i].status)
                  health == calls.batch.devices[i].health_status
              IN  /\ reported \in {<<>>, <<"o","f","f","l","i","n","e">>}
                        => health = "unknown"
                  /\ health = "healthy"
                        => reported = <<"h","e","a","l","t","h","y">>

(***************************************************************************)
(* C16.  Whatever state the polled job is in, the status the endpoint      *)
(* reports is one of queued, active, completed, failed, and the response   *)
(* carries pdf_url only when that status is completed.                     *)
(***************************************************************************)
C16_StatusIsOneOfFour ==
    calls.response.http = 200
        => /\ calls.response.status \in {"queued", "active", "completed", "failed"}
           /\ calls.response.pdf_url # "" => calls.response.status = "completed"

(***************************************************************************)
(* C17.  Every request to GET /clients/:id/scores returns the scores of    *)
(* the rows that are in the store when the request is made.                *)
(***************************************************************************)
C17_ScoresOfCurrentStore ==
    [][\A c \in ClientIds :
          GetScores(c) => scores'.results = AllScores(store, c)]_vars

(***************************************************************************)
(* C19.  calculateRiskScore returns a number for every client.  With no    *)
(* users the identity component is score 50, 'Medium', with a description  *)
(* that no user data is available; with no devices the endpoint component  *)
(* is score 50, 'Medium', with a description that no device data is        *)
(* available; the other components are computed from the client's rows.    *)
(***************************************************************************)
NoDataComponent(component, description) ==
    /\ component.score = Int2R(50)
    /\ component.risk_level = "Medium"
    /\ component.evidence = [description |-> description]

C19_RiskNeverNull ==
    \A c \in ClientIds :
        scores.client = c
            => LET risk == scores.results["risk"]
                   users == userCountByClientId(store, c)
                   devices == deviceCountByClientId(store, c)
               IN  /\ risk.score # NULL
                   /\ risk.score[1] \in 0..100
                   /\ DOMAIN risk.breakdown
                        = {"identity_risk", "email_risk", "endpoint_risk",
                           "business_modifier"}
                   /\ IF users = 0
                      THEN NoDataComponent(risk.breakdown.identity_risk,
                             "No user data available for identity risk assessment")
                      ELSE risk.breakdown.identity_risk.evidence.total_users = users
                   /\ IF devices = 0
                      THEN NoDataComponent(risk.breakdown.endpoint_risk,
                             "No device data available for endpoint risk assessment")
                      ELSE risk.breakdown.endpoint_risk.evidence.total_devices = devices
                   /\ risk.breakdown.email_risk.evidence.open_email_alerts
                        = Cardinality(OpenOf(riskFindByType(store, c, "email")))
                   /\ risk.breakdown.business_modifier.score = Int2R(40)

\* reached: the risk score of a client with devices and no users
C19_Witness ==
    /\ scores.client = 1
    /\ userCountByClientId(store, 1) = 0
    /\ deviceCountByClientId(store, 1) > 0
    /\ scores.results["risk"].score # NULL
    /\ scores.results["risk"].breakdown.identity_risk.score = Int2R(50)
    /\ scores.results["risk"].breakdown.endpoint_risk.evidence.total_devices > 0

(***************************************************************************)
(* C20.  For a client with no ticket in the current and none in the        *)
(* previous quarter, whatever its number of users, each of the five        *)
(* Experience components scores 50 and the Experience score is 50.         *)
(***************************************************************************)
NoTickets(c) ==
    /\ ticketFindByDateRange(store, c, "cur") = {}
    /\ ticketFindByDateRange(store, c, "prev") = {}

C20_NoTicketsIsNeutral ==
    \A c \in ClientIds :
        (scores.client = c /\ NoTickets(c))
            => LET experience == scores.results["experience"]
               IN  /\ experience.score = Some(50)
                   /\ DOMAIN experience.breakdown
                        = {"tickets_per_user_trend", "repeat_issue_rate",
                           "sla_performance", "reopen_rate",
                           "after_hours_incidents"}
                   /\ \A k \in DOMAIN experience.breakdown :
                         experience.breakdown[k].score = Int2R(50)

\* reached: the Experience score of a client with users and no tickets
C20_Witness ==
    /\ scores.client = 1
    /\ NoTickets(1)
    /\ userCountByClientId(store, 1) > 0
    /\ scores.results["experience"].score = Some(50)
    /\ scores.results["experience"].breakdown.tickets_per_user_trend.evidence
         = [current_quarter_tickets |-> 0, previous_quarter_tickets |-> 0,
            user_count |-> userCountByClientId(store, 1), trend_percentage |-> 0]

(***************************************************************************)
(* C21.  Every component of the Risk breakdown carries the label of its    *)
(* reported score: 'Low' for a score below 25, 'Medium' for a score from   *)
(* 25 and below 50, 'High' for a score from 50.                            *)
(***************************************************************************)
LabelOf(score) ==
    IF score < 25 THEN "Low" ELSE IF score < 50 THEN "Medium" ELSE "High"

C21_RiskLevelAgreesWithScore ==
    \A c \in ClientIds :
        scores.client = c
            => LET breakdown == scores.results["risk"].breakdown
               IN  \A k \in DOMAIN breakdown :
                      /\ breakdown[k].score[2] = 1
                      /\ breakdown[k].risk_level = LabelOf(breakdown[k].score[1])

(***************************************************************************)
(* C22.  For users and previous-quarter tickets above zero, the trend      *)
(* component's score is the step function of the percent change p of       *)
(* tickets per user: 90 for p <= -20, 75 for -20 < p <= -10, 60 for        *)
(* -10 < p < 0, 50 for p = 0, 40 for 0 < p < 10, 30 for 10 <= p < 20, 20   *)
(* for p >= 20.                                                            *)
(***************************************************************************)
RLe(a, b) == ~RLt(b, a)

StepOf(p) ==
    IF RLe(p, Int2R(-20)) THEN 90
    ELSE IF RLe(p, Int2R(-10)) THEN 75
    ELSE IF RLt(p, Int2R(0)) THEN 60
    ELSE IF p = Int2R(0) THEN 50
    ELSE IF RLt(p, Int2R(10)) THEN 40
    ELSE IF RLt(p, Int2R(20)) THEN 30
    ELSE 20

C22_TrendStepFunction ==
    (calls.pc = "returned" /\ calls.q["t_users"] > 0 /\ calls.q["t_prev"] > 0)
        => calls.trend.score
             = Int2R(StepOf(Frac(100 * (calls.q["t_cur"] - calls.q["t_prev"]),
                                 calls.q["t_prev"])))

(***************************************************************************)
(* C23.  For a positive user count, the trend component's score does not   *)
(* rise when the current quarter has more tickets (previous quarter        *)
(* fixed), nor when the previous quarter has fewer tickets, down to none   *)
(* (current quarter fixed).                                                *)
(***************************************************************************)
TrendScoreOf(cur, prev, users) ==
    calculateTicketsPerUserTrend(
        [Q0 EXCEPT !["t_cur"] = cur, !["t_prev"] = prev,
                   !["t_users"] = users]).score[1]

C23_TrendMonotone ==
    (calls.pc = "returned" /\ calls.q["t_users"] > 0)
        => LET cur == calls.q["t_cur"]
               prev == calls.q["t_prev"]
               users == calls.q["t_users"]
           IN  /\ \A more \in cur..MaxQuarterTickets :
                     TrendScoreOf(more, prev, users) <= calls.trend.score[1]
               /\ \A fewer \in 0..prev :
                     TrendScoreOf(cur, fewer, users) <= calls.trend.score[1]

(***************************************************************************)
(* C24.  With the users, the high-risk and medium-risk users and all other *)
(* inputs unchanged, the Risk score and its identity component do not      *)
(* fall when fewer users have MFA enabled.                                 *)
(***************************************************************************)
RiskAnswers(c) == RunPlan("risk", store, c, Q0, 1)

C24_RiskMonotoneInMFA ==
    \A c \in ClientIds :
        scores.client = c
            => \A fewer \in 0..RiskAnswers(c)["id_mfa"] :
                  LET with == calculateRiskScore(
                                 [RiskAnswers(c) EXCEPT !["id_mfa"] = fewer])
                      risk == scores.results["risk"]
                  IN  /\ with.score[1] >= risk.score[1]
                      /\ with.breakdown.identity_risk.score[1]
                           >= risk.breakdown.identity_risk.score[1]

\* reached: the risk score of a client whose score is higher with one
\* MFA-enabled user less
C24_Witness ==
    /\ scores.client = 1
    /\ RiskAnswers(1)["id_total"] >= 2
    /\ RiskAnswers(1)["id_mfa"] >= 1
    /\ calculateRiskScore(
           [RiskAnswers(1) EXCEPT !["id_mfa"] = @ - 1]).score[1]
         > scores.results["risk"].score[1]

(***************************************************************************)
(* C25.  For the client of the scenario (50 devices, 45 managed, 42        *)
(* healthy, 40 of 50 controls passing, secure-score pass rate 72%)         *)
(* calculateStandardsScore returns device_coverage 90, baseline compliance *)
(* 80, patch_compliance 84, edr coverage 96, secure score 72 and total 84. *)
(***************************************************************************)
IsScenario ==
    /\ calls.q["s_managed"] = ScenarioManaged
    /\ calls.q["p_healthy"] = ScenarioHealthy
    /\ calls.q["i_pass"] = ScenarioPassing

C25_ScenarioScores ==
    (calls.pc = "returned" /\ IsScenario)
        => LET breakdown == calls.standards.breakdown
           IN  /\ breakdown.device_coverage.score = Int2R(90)
               /\ breakdown.immy_compliance.score = Int2R(80)
               /\ breakdown.patch_compliance.score = Int2R(84)
               /\ breakdown.edr_health.score = Int2R(96)
               /\ breakdown.m365_secure_score.score = Int2R(72)
               /\ calls.standards.score = Some(84)

(***************************************************************************)
(* C26.  Each of the three total scores of a client is null, and then it   *)
(* is the Standards score of a client without devices, or an integer in    *)
(* 0..100; every component score of every breakdown is in 0..100.          *)
(***************************************************************************)
InRange(score) == RLe(Int2R(0), score) /\ RLe(score, Int2R(100))

ComponentScores(result) ==
    { result.breakdown[k].score : k \in DOMAIN result.breakdown }

C26_ScoresInRange ==
    \A c \in ClientIds :
        scores.client = c
            => \A calc \in Calcs :
                  LET result == scores.results[calc]
                  IN  /\ result.score = NULL
                          => /\ calc = "standards"
                             /\ RunPlan(calc, store, c, Q0, 1)["s_total"] = 0
                      /\ result.score # NULL => result.score[1] \in 0..100
                      /\ \A score \in ComponentScores(result) : InRange(score)

\* reached: scores of a client without devices, more than half of whose
\* tickets are reopened: the Standards score is null, the reopen score is
\* floored at 0
C26_Witness ==
    /\ scores.client = 1
    /\ scores.results["standards"].score = NULL
    /\ scores.results["risk"].score # NULL
    /\ scores.results["experience"].breakdown.reopen_rate.score = Int2R(0)
    /\ RunPlan("experience", store, 1, Q0, 1)["ro_reopened"] * 2
         > RunPlan("experience", store, 1, Q0, 1)["ro_total"]

(***************************************************************************)
(* C27.  When a ConnectWise sync and an Immy sync have each stored a       *)
(* device of the same external_id for the same client, the store holds two *)
(* rows of that external_id for the client, one of each vendor: the later  *)
(* sync leaves the other vendor's row alone.                               *)
(***************************************************************************)
DevicesOf(db, ext, c) ==
    {r \in db.devices : r.external_id = ext /\ r.client_id = c}

\* run i committed a device of external_id ext for client c: the first
\* client the ConnectWise run upserted, the first client the Immy run found
StoredDevice(i, route, ext, c) ==
    /\ hist[i].ok
    /\ hist[i].route = route
    /\ \E d \in Range(hist[i].batch.devices) : d.external_id = ext
    /\ DevicesOf(hist[i].after, ext, c) # {}
    /\ IF route = "connectwise"
       THEN /\ hist[i].batch.clients # <<>>
            /\ \E r \in hist[i].after.clients :
                  /\ r.id = c
                  /\ r.external_id = hist[i].batch.clients[1].external_id
                  /\ r.source = hist[i].batch.clients[1].source
       ELSE hist[i].before.clients # {}

C27_VendorsKeepTheirRows ==
    \A i, j \in DOMAIN hist : \A c \in ClientIds :
        (/\ i < j
         /\ \/ StoredDevice(i, "connectwise", CWDevice.external_id, c)
               /\ StoredDevice(j, "immy", CWDevice.external_id, c)
            \/ StoredDevice(i, "immy", CWDevice.external_id, c)
               /\ StoredDevice(j, "connectwise", CWDevice.external_id, c))
            => Cardinality(DevicesOf(hist[j].after, CWDevice.external_id, c)) >= 2

(***************************************************************************)
(* C28.  For every status string containing 'non-compliant' or 'fail',     *)
(* mapComplianceStatus returns 'fail' and mapImmyHealthStatus returns      *)
(* 'critical'.                                                             *)
(***************************************************************************)
NegativeStatus(status) ==
    /\ status.type = "string"
    /\ \/ includes(status.text, <<"n", "o", "n", "-", "c", "o", "m", "p", "l", "i", "a", "n", "t">>)
       \/ includes(status.text, <<"f", "a", "i", "l">>)

C28_NegativeStaysNegative ==
    (calls.pc = "returned" /\ NegativeStatus(calls.status))
        => calls.control = "fail" /\ calls.health = "critical"

(***************************************************************************)
(* C29.  After a successful POST /sync/connectwise, for each entity type   *)
(* of record_counts (clients, agreements, tickets, devices) the reported   *)
(* count is the number of rows of that type the sync inserted or updated.  *)
(***************************************************************************)
\* the rows of an entity type a committed run wrote; a type without a
\* table has none
RowsWritten(run, type) == Cardinality({x \in run.rows : x[1] = type})

C29_CountsMatchWrites ==
    \A i \in DOMAIN hist :
        (hist[i].ok /\ hist[i].route = "connectwise")
            => \A type \in DOMAIN hist[i].record_counts :
                  hist[i].record_counts[type] = RowsWritten(hist[i], type)

(***************************************************************************)
(* C30.  When validateCitations returns, every citation of every           *)
(* recommendation either names a ticket or a device of the supplied data   *)
(* or has a warning; a citation that is neither a '[Ticket #<digits>]' nor *)
(* a '[Device: <name>]' is not accepted silently.                          *)
(***************************************************************************)
Resolves(citation, input) ==
    LET ticket == Match(citation, "[Ticket #")
        device == Match(citation, "[Device: ")
    IN  \/ /\ ticket # NULL
           /\ \E t \in input.recent_tickets :
                 t.external_id = ticket[1] \/ toString(t.id) = ticket[1]
        \/ /\ device # NULL
           /\ \E d \in input.lifecycle_items : d.name = device[1]

C30_UnresolvedCitationFlagged ==
    (Validated /\ job.thrown = "")
        => \A i \in DOMAIN job.response.recommendations :
           \A k \in DOMAIN job.response.recommendations[i].evidence[1] :
              \/ Resolves(job.response.recommendations[i].evidence[1][k], job.input)
              \/ \E w \in job.warnings : w[1] = i /\ w[2] = k

====
